---- MODULE Spec2Model ----
(***************************************************************************)
(* Model of the Hamming multi-index (HMI::MultiIndex) and of the           *)
(* containers it is built from: MultiIndexBucket, MultiIndexPagedContainer *)
(* and MultiIndexHashTable, plus the batch entry point AddItems of the     *)
(* dynamic library, the constructor with its error paths, the popcount     *)
(* backends, the locking and result decoding of the managed wrapper, and   *)
(* the bucket with its pages on the heap, copied and assigned.             *)
(*                                                                         *)
(* Scaling.  A word of the program has WORD_SIZE * BITS_IN_BYTE = 16 bits  *)
(* and the bucket directory has 65536 cells per word position.  The model  *)
(* keeps the code's arithmetic but gives a word WordBits bits, so that     *)
(* NUMBER_OF_WORD_VARIATIONS = 2^WordBits.  A vector is the sequence of    *)
(* its m_NumberOfWordsInItem words (word position i of the code is element *)
(* i + 1 of the sequence).                                                 *)
(*                                                                         *)
(* Integers.  uint has 32 bits in the program; the model gives it UintBits *)
(* bits (UINT_MAX = 2^UintBits - 1) and wraps uint arithmetic at that      *)
(* width.                                                                  *)
(*                                                                         *)
(* Floats.  A range is the rational range / RangeDen and a reported        *)
(* distance is the rational distance / ItemBits; a result pair carries the *)
(* numerator (the bit count).  The comparison currentDistance <= range is  *)
(* done by cross-multiplication, which is what the float comparison gives  *)
(* whenever 8 * L is a power of two (the division is then exact).          *)
(***************************************************************************)
EXTENDS Integers, Sequences, FiniteSets, TLC

VARIABLES
    m_WordToKeyIndex,        \* vector<MultiIndexBucket>, directory index -> bucket
    m_KeyToArrayIndexTable,  \* MultiIndexHashTable
    m_Items,                 \* MultiIndexPagedContainer of the item vectors
    m_BruteForceBound,       \* const float, numerator over RangeDen
    keysAndDistances,        \* the caller's output vector of the running call
    lastCall,                \* the call that has just returned (NoCall when idle)
    added,                   \* history: the <<key, item>> pairs inserted since Clear
    pc,                      \* managed wrapper: where each thread is in its entry point
    m_LockObject,            \* managed wrapper: the thread inside lock (m_LockObject)
    heap                     \* the bucket pages obtained with new byte[], by address

vars == <<m_WordToKeyIndex, m_KeyToArrayIndexTable, m_Items, m_BruteForceBound,
          keysAndDistances, lastCall, added, pc, m_LockObject, heap>>

(* The state of the managed wrapper, which only its own threads change.    *)
wrapper == <<pc, m_LockObject>>

(* The index object as a record, so that its methods can be applied to any  *)
(* index value and not only to the current one.                            *)
this == [m_WordToKeyIndex |-> m_WordToKeyIndex,
         m_KeyToArrayIndexTable |-> m_KeyToArrayIndexTable,
         m_Items |-> m_Items]

----------------------------------------------------------------------------
(* Bounds of the model and construction parameters.                        *)

WordBits == 2
MaxItems == 2
MaxKey == 2
MaxBatch == 3
UintBits == 16

m_NumberOfWordsInItem == 2
bucketPageSize == 1
hashTableSize == 2
pageSize == 2

RangeDen == 4

NUMBER_OF_WORD_VARIATIONS == 2 ^ WordBits
UINT_MAX == 2 ^ UintBits - 1
ItemBits == m_NumberOfWordsInItem * WordBits

Keys == 0 .. MaxKey
Words == 0 .. (NUMBER_OF_WORD_VARIATIONS - 1)
Vectors == [1 .. m_NumberOfWordsInItem -> Words]
Ranges == (0 - 1) .. (RangeDen + 1)
BruteForceBounds == {RangeDen \div 2, RangeDen + 1}
Uninit == "uninitialized"

Min(a, b) == IF a < b THEN a ELSE b

(* The heap the bucket pages live in.  An address is a number, nullptr is  *)
(* 0; a page of a bucket is its next-page pointer followed by its items.   *)
(* new byte[] returns memory whose content is indeterminate: a slot that   *)
(* was never written holds Indeterminate, and so does the next pointer of  *)
(* a page until SetNextPage has run.  A page that is not allocated is      *)
(* NoPage.                                                                 *)
MaxPages == 4
MaxPageCapacity == 2
MaxBucketItems == 4

nullptr == 0
Indeterminate == 0 - 1
Addresses == 1 .. MaxPages
BucketValues == {0, MaxKey}
NoPage == [allocated |-> FALSE, next |-> nullptr, items |-> <<>>]
EmptyHeap == [a \in Addresses |-> NoPage]

----------------------------------------------------------------------------
(* Bit operations on unsigned integers.                                    *)

RECURSIVE Xor(_, _)
Xor(a, b) ==
    IF a = 0 /\ b = 0 THEN 0
    ELSE (((a % 2) + (b % 2)) % 2) + 2 * Xor(a \div 2, b \div 2)

RECURSIVE GetPopcount(_)
GetPopcount(x) == IF x = 0 THEN 0 ELSE (x % 2) + GetPopcount(x \div 2)

RECURSIVE And(_, _)
And(a, b) ==
    IF a = 0 \/ b = 0 THEN 0
    ELSE ((a % 2) * (b % 2)) + 2 * And(a \div 2, b \div 2)

(* Mutant: the loop shifts x right instead of clearing its lowest set bit. *)
RECURSIVE PopcountLoopShifting(_, _)
PopcountLoopShifting(x, count) ==
    IF x = 0 THEN count ELSE PopcountLoopShifting(x \div 2, count + 1)

(* The loop of the build with _FAST_HAMMING_INDEX_USE_EMULATION:           *)
(* while (x) { count++; x &= x - 1; }                                      *)
RECURSIVE PopcountLoop(_, _)
PopcountLoop(x, count) ==
    IF x = 0 THEN count ELSE PopcountLoop(And(x, x - 1), count + 1)

GetPopcountEmulation(x) == PopcountLoop(x, 0)

RECURSIVE GetDistanceEmulationFrom(_, _, _)
GetDistanceEmulationFrom(x, y, i) ==
    IF i > Len(x) THEN 0
    ELSE GetPopcountEmulation(Xor(x[i], y[i])) + GetDistanceEmulationFrom(x, y, i + 1)

(* GetDistance of the build with _FAST_HAMMING_INDEX_USE_EMULATION.        *)
GetDistanceEmulation(x, y) == GetDistanceEmulationFrom(x, y, 1)

RECURSIVE GetDistanceFrom(_, _, _)
GetDistanceFrom(x, y, i) ==
    IF i > Len(x) THEN 0
    ELSE GetPopcount(Xor(x[i], y[i])) + GetDistanceFrom(x, y, i + 1)

(* Mutant: the lane loop stops one lane early.                             *)
GetDistanceShort(x, y) == GetDistanceFrom(SubSeq(x, 1, Len(x) - 1), y, 1)

GetDistance(x, y) == GetDistanceFrom(x, y, 1)

----------------------------------------------------------------------------
(* MultiIndexPagedContainer: a directory of pages, each an array of        *)
(* m_NumberOfItemsPerPage records.  Ordinals and offsets are 0-based as in *)
(* the code; TLA+ sequences are 1-based.                                   *)

NewPage(perPage) == [o \in 1 .. perPage |-> Uninit]

PagedContainer(perPage) ==
    [m_NumberOfItems |-> 0, m_NumberOfItemsPerPage |-> perPage, m_Pages |-> <<>>]

PagedClear(c) == [c EXCEPT !.m_NumberOfItems = 0, !.m_Pages = <<>>]

PagedGetItemBytes(c, n) ==
    LET pageIndex == n \div c.m_NumberOfItemsPerPage
        pageOffset == n % c.m_NumberOfItemsPerPage
    IN c.m_Pages[pageIndex + 1][pageOffset + 1]

PagedSetItemBytes(c, n, itemBytes) ==
    LET pageIndex == n \div c.m_NumberOfItemsPerPage
        pageOffset == n % c.m_NumberOfItemsPerPage
    IN [c EXCEPT !.m_Pages[pageIndex + 1][pageOffset + 1] = itemBytes]

(* Mutant: the record is also copied to the start of the first page.      *)
PagedPushBytesFirstPage(c, itemBytes) ==
    LET pages == IF c.m_NumberOfItems % c.m_NumberOfItemsPerPage = 0
                 THEN Append(c.m_Pages, NewPage(c.m_NumberOfItemsPerPage))
                 ELSE c.m_Pages
        pageIndex == c.m_NumberOfItems \div c.m_NumberOfItemsPerPage
        pageOffset == c.m_NumberOfItems % c.m_NumberOfItemsPerPage
    IN [c EXCEPT !.m_Pages = [pages EXCEPT ![pageIndex + 1][pageOffset + 1] = itemBytes,
                                           ![1][1] = itemBytes],
                 !.m_NumberOfItems = c.m_NumberOfItems + 1]

PagedPushBytes(c, itemBytes) ==
    LET pages == IF c.m_NumberOfItems % c.m_NumberOfItemsPerPage = 0
                 THEN Append(c.m_Pages, NewPage(c.m_NumberOfItemsPerPage))
                 ELSE c.m_Pages
        pageIndex == c.m_NumberOfItems \div c.m_NumberOfItemsPerPage
        pageOffset == c.m_NumberOfItems % c.m_NumberOfItemsPerPage
    IN [c EXCEPT !.m_Pages = [pages EXCEPT ![pageIndex + 1][pageOffset + 1] = itemBytes],
                 !.m_NumberOfItems = c.m_NumberOfItems + 1]

----------------------------------------------------------------------------
(* MultiIndexBucket: a linked list of pages of m_NumberOfItemsPerPage      *)
(* slots.  The list is the sequence m_Pages in link order: m_FirstPagePtr  *)
(* is its first element, m_LastPagePtr its last, nullptr the empty list.   *)

MultiIndexBucket(perPage) ==
    [m_NumberOfItems |-> 0, m_NumberOfItemsPerPage |-> perPage, m_Pages |-> <<>>]

BucketClear(b) == [b EXCEPT !.m_NumberOfItems = 0, !.m_Pages = <<>>]

BucketPush(b, newValue) ==
    LET offset == b.m_NumberOfItems % b.m_NumberOfItemsPerPage
        fresh == [NewPage(b.m_NumberOfItemsPerPage) EXCEPT ![1] = newValue]
        pages ==
            IF b.m_Pages = <<>> THEN <<fresh>>
            ELSE IF offset = 0 THEN Append(b.m_Pages, fresh)
            ELSE [b.m_Pages EXCEPT ![Len(b.m_Pages)][offset + 1] = newValue]
    IN [b EXCEPT !.m_Pages = pages, !.m_NumberOfItems = b.m_NumberOfItems + 1]

RECURSIVE CollectPagesFrom(_, _, _, _)
CollectPagesFrom(b, p, size, accumulator) ==
    IF p > Len(b.m_Pages) THEN accumulator
    ELSE LET n == Min(size, b.m_NumberOfItemsPerPage)
         IN CollectPagesFrom(b, p + 1, size - n,
                accumulator \o SubSeq(b.m_Pages[p], 1, n))

CollectValuesTo(b, accumulator) ==
    CollectPagesFrom(b, 1, b.m_NumberOfItems, accumulator)

----------------------------------------------------------------------------
(* MultiIndexBucket with its pages on the heap.  Each operation takes the  *)
(* heap h and the bucket b and returns both as [heap, bucket]; b is        *)
(* [m_NumberOfItems, m_NumberOfItemsPerPage, m_FirstPagePtr,               *)
(* m_LastPagePtr].  MultiIndexBucket, BucketClear, BucketPush and          *)
(* CollectValuesTo above are the same operations with the page list as a   *)
(* sequence.                                                               *)

LinkedBucket(perPage) ==
    [m_NumberOfItems |-> 0, m_NumberOfItemsPerPage |-> perPage,
     m_FirstPagePtr |-> nullptr, m_LastPagePtr |-> nullptr]

FreeAddresses(h) == {a \in Addresses : ~h[a].allocated}

(* new byte[GetNumberOfBytesPerPage()]: the address of the new page, the   *)
(* lowest one that is free, and the heap with the page allocated.          *)
NewBytesAddress(h) == CHOOSE a \in FreeAddresses(h) : \A c \in FreeAddresses(h) : a <= c

NewBytes(h, perPage) ==
    [h EXCEPT ![NewBytesAddress(h)] =
        [allocated |-> TRUE, next |-> Indeterminate,
         items |-> [i \in 1 .. perPage |-> Indeterminate]]]

(* delete [] currentPage                                                   *)
DeleteBytes(h, currentPage) == [h EXCEPT ![currentPage] = NoPage]

GetNextPage(h, currentPage) == h[currentPage].next

SetNextPage(h, currentPage, nextPagePtr) ==
    [h EXCEPT ![currentPage].next = nextPagePtr]

GetPageItem(h, currentPage, itemOffsetInPage) ==
    h[currentPage].items[itemOffsetInPage + 1]

SetPageItem(h, currentPage, itemOffsetInPage, itemValue) ==
    [h EXCEPT ![currentPage].items[itemOffsetInPage + 1] = itemValue]

GetNumberOfPages(b) ==
    (b.m_NumberOfItems \div b.m_NumberOfItemsPerPage)
        + (IF b.m_NumberOfItems % b.m_NumberOfItemsPerPage # 0 THEN 1 ELSE 0)

(* The loop of Clear: delete the pages from currentPage on.                *)
RECURSIVE DeletePagesFrom(_, _)
DeletePagesFrom(h, currentPage) ==
    IF currentPage = nullptr THEN h
    ELSE LET nextPagePtr == GetNextPage(h, currentPage)
         IN DeletePagesFrom(DeleteBytes(h, currentPage), nextPagePtr)

LinkedClear(h, b) ==
    [heap |-> DeletePagesFrom(h, b.m_FirstPagePtr),
     bucket |-> [b EXCEPT !.m_NumberOfItems = 0, !.m_FirstPagePtr = nullptr,
                          !.m_LastPagePtr = nullptr]]

(* Mutant: a new page is linked behind the last one, which stays the last. *)
LinkedPushKeepsLast(h, b, newValue) ==
    IF b.m_LastPagePtr = nullptr
    THEN LET page == NewBytesAddress(h)
             h1 == NewBytes(h, b.m_NumberOfItemsPerPage)
             h2 == SetNextPage(h1, page, nullptr)
             h3 == SetPageItem(h2, page, 0, newValue)
         IN [heap |-> h3,
             bucket |-> [b EXCEPT !.m_FirstPagePtr = page, !.m_LastPagePtr = page,
                                  !.m_NumberOfItems = b.m_NumberOfItems + 1]]
    ELSE LET offset == b.m_NumberOfItems % b.m_NumberOfItemsPerPage
         IN IF offset = 0
            THEN LET newPage == NewBytesAddress(h)
                     h1 == NewBytes(h, b.m_NumberOfItemsPerPage)
                     h2 == SetNextPage(h1, newPage, nullptr)
                     h3 == SetPageItem(h2, newPage, 0, newValue)
                     h4 == SetNextPage(h3, b.m_LastPagePtr, newPage)
                 IN [heap |-> h4,
                     bucket |-> [b EXCEPT !.m_NumberOfItems = b.m_NumberOfItems + 1]]
            ELSE [heap |-> SetPageItem(h, b.m_LastPagePtr, offset, newValue),
                  bucket |-> [b EXCEPT !.m_NumberOfItems = b.m_NumberOfItems + 1]]

LinkedPush(h, b, newValue) ==
    IF b.m_LastPagePtr = nullptr
    THEN LET page == NewBytesAddress(h)
             h1 == NewBytes(h, b.m_NumberOfItemsPerPage)
             h2 == SetNextPage(h1, page, nullptr)
             h3 == SetPageItem(h2, page, 0, newValue)
         IN [heap |-> h3,
             bucket |-> [b EXCEPT !.m_FirstPagePtr = page, !.m_LastPagePtr = page,
                                  !.m_NumberOfItems = b.m_NumberOfItems + 1]]
    ELSE LET offset == b.m_NumberOfItems % b.m_NumberOfItemsPerPage
         IN IF offset = 0
            THEN LET newPage == NewBytesAddress(h)
                     h1 == NewBytes(h, b.m_NumberOfItemsPerPage)
                     h2 == SetNextPage(h1, newPage, nullptr)
                     h3 == SetPageItem(h2, newPage, 0, newValue)
                     h4 == SetNextPage(h3, b.m_LastPagePtr, newPage)
                 IN [heap |-> h4,
                     bucket |-> [b EXCEPT !.m_LastPagePtr = newPage,
                                          !.m_NumberOfItems = b.m_NumberOfItems + 1]]
            ELSE [heap |-> SetPageItem(h, b.m_LastPagePtr, offset, newValue),
                  bucket |-> [b EXCEPT !.m_NumberOfItems = b.m_NumberOfItems + 1]]

(* Mutant: the page in front of nullptr gives size modulo the page         *)
(* capacity items.                                                         *)
RECURSIVE LinkedCollectRemainder(_, _, _, _, _)
LinkedCollectRemainder(h, b, currentPage, size, accumulator) ==
    IF currentPage = nullptr THEN accumulator
    ELSE LET itemsOnPage == IF GetNextPage(h, currentPage) = nullptr
                         THEN b.m_NumberOfItems % b.m_NumberOfItemsPerPage
                         ELSE b.m_NumberOfItemsPerPage
         IN LinkedCollectRemainder(h, b, GetNextPage(h, currentPage), size - itemsOnPage,
                accumulator \o [i \in 1 .. itemsOnPage |->
                                   GetPageItem(h, currentPage, i - 1)])

(* The loop of CollectValuesTo from currentPage on, size items left.       *)
RECURSIVE LinkedCollectFrom(_, _, _, _, _)
LinkedCollectFrom(h, b, currentPage, size, accumulator) ==
    IF currentPage = nullptr THEN accumulator
    ELSE LET itemsOnPage == Min(size, b.m_NumberOfItemsPerPage)
         IN LinkedCollectFrom(h, b, GetNextPage(h, currentPage), size - itemsOnPage,
                accumulator \o [i \in 1 .. itemsOnPage |->
                                   GetPageItem(h, currentPage, i - 1)])

LinkedCollectValuesTo(h, b, accumulator) ==
    LinkedCollectFrom(h, b, b.m_FirstPagePtr, b.m_NumberOfItems, accumulator)

(* The page loop of the copy constructor and of operator=, from i on.      *)
(* currentPage starts as the m_FirstPagePtr of the bucket being built,     *)
(* which is nullptr, so memcpy reads from nullptr and GetNextPage is       *)
(* called with nullptr: read[i + 1] is what the i-th memcpy found there    *)
(* for the items.  copyPages[i + 1] is still nullptr when it is stored as  *)
(* the next page of copyPages[i].                                          *)
RECURSIVE CopyPagesFrom(_, _, _, _, _)
CopyPagesFrom(h, source, i, copyPages, read) ==
    IF i >= Len(copyPages) THEN [heap |-> h, copyPages |-> copyPages]
    ELSE LET page == NewBytesAddress(h)
             h1 == NewBytes(h, source.m_NumberOfItemsPerPage)
             h2 == [h1 EXCEPT ![page].items = read[i + 1]]
             pages == [copyPages EXCEPT ![i + 1] = page]
             h3 == SetNextPage(h2, page,
                       IF i # Len(copyPages) - 1 THEN pages[i + 2] ELSE nullptr)
         IN CopyPagesFrom(h3, source, i + 1, pages, read)

(* What the page loop can do for the bucket being built, whose pointers    *)
(* are nullptr: nothing for a source without pages; otherwise the read     *)
(* from nullptr ends the process (an access violation, or the assert of    *)
(* GetNextPage), or it yields some bytes.                                  *)
CopyPages(h, target, source) ==
    LET numberOfPages == GetNumberOfPages(source)
    IN IF numberOfPages = 0
       THEN {[crashed |-> FALSE, heap |-> h, bucket |-> target]}
       ELSE {[crashed |-> TRUE, heap |-> h, bucket |-> target]} \cup
            {LET c == CopyPagesFrom(h, source, 0,
                          [i \in 1 .. numberOfPages |-> nullptr], read)
             IN [crashed |-> FALSE, heap |-> c.heap,
                 bucket |-> [target EXCEPT
                                !.m_FirstPagePtr = c.copyPages[1],
                                !.m_LastPagePtr = c.copyPages[numberOfPages]]] :
                read \in [1 .. numberOfPages ->
                             [1 .. source.m_NumberOfItemsPerPage -> BucketValues]]}

(* MultiIndexBucket(const MultiIndexBucket& source)                        *)
LinkedBucketCopy(h, source) ==
    CopyPages(h, [m_NumberOfItems |-> source.m_NumberOfItems,
                  m_NumberOfItemsPerPage |-> source.m_NumberOfItemsPerPage,
                  m_FirstPagePtr |-> nullptr, m_LastPagePtr |-> nullptr], source)

(* operator= for this != &source: the pointers of the bucket assigned to   *)
(* are set to nullptr, its pages stay allocated.                           *)
LinkedBucketAssign(h, target, source) ==
    CopyPages(h, [m_NumberOfItems |-> source.m_NumberOfItems,
                  m_NumberOfItemsPerPage |-> source.m_NumberOfItemsPerPage,
                  m_FirstPagePtr |-> nullptr, m_LastPagePtr |-> nullptr], source)

----------------------------------------------------------------------------
(* MultiIndexHashTable: a directory of chain heads and the chain records   *)
(* (key, ordinal of the next record with the same hash) in a paged         *)
(* container.  A record is [first |-> key, second |-> next].               *)

MultiIndexHashTable(size, perPage) ==
    [m_IndexOfTheFirstKeyWithGivenHash |-> [h \in 0 .. (size - 1) |-> UINT_MAX],
     m_KeyAndNextIndexPairArray |-> PagedContainer(perPage)]

HashGetNumberOfItems(t) == t.m_KeyAndNextIndexPairArray.m_NumberOfItems

HashClear(t) ==
    [m_IndexOfTheFirstKeyWithGivenHash |->
        [h \in DOMAIN t.m_IndexOfTheFirstKeyWithGivenHash |-> UINT_MAX],
     m_KeyAndNextIndexPairArray |-> PagedClear(t.m_KeyAndNextIndexPairArray)]

GetHash(t, key) == key % Cardinality(DOMAIN t.m_IndexOfTheFirstKeyWithGivenHash)

(* Mutant: only the first record of the chain is compared.                 *)
GetItemIndexHeadOnly(t, key, n) ==
    IF n = UINT_MAX THEN n
    ELSE IF PagedGetItemBytes(t.m_KeyAndNextIndexPairArray, n).first = key THEN n
    ELSE UINT_MAX

RECURSIVE GetItemIndexFrom(_, _, _)
GetItemIndexFrom(t, key, n) ==
    IF n = UINT_MAX THEN n
    ELSE LET item == PagedGetItemBytes(t.m_KeyAndNextIndexPairArray, n)
         IN IF item.first = key THEN n
            ELSE GetItemIndexFrom(t, key, item.second)

GetItemIndex(t, key) ==
    GetItemIndexFrom(t, key, t.m_IndexOfTheFirstKeyWithGivenHash[GetHash(t, key)])

RECURSIVE HasItemFrom(_, _, _)
HasItemFrom(t, key, n) ==
    IF n = UINT_MAX THEN FALSE
    ELSE LET item == PagedGetItemBytes(t.m_KeyAndNextIndexPairArray, n)
         IN IF item.first = key THEN TRUE
            ELSE HasItemFrom(t, key, item.second)

HasItem(t, key) ==
    HasItemFrom(t, key, t.m_IndexOfTheFirstKeyWithGivenHash[GetHash(t, key)])

GetKeyByIndex(t, n) == PagedGetItemBytes(t.m_KeyAndNextIndexPairArray, n).first

(* The else branch of Push: walk the chain from record n; raise on the     *)
(* key, and link the new record behind the last one of the chain.          *)
RECURSIVE HashPushFrom(_, _, _)
HashPushFrom(t, key, n) ==
    LET arr == t.m_KeyAndNextIndexPairArray
        item == PagedGetItemBytes(arr, n)
    IN IF item.first = key THEN [raised |-> TRUE, table |-> t]
       ELSE IF item.second = UINT_MAX
       THEN LET linked == PagedSetItemBytes(arr, n,
                              [first |-> item.first, second |-> arr.m_NumberOfItems])
            IN [raised |-> FALSE,
                table |-> [t EXCEPT !.m_KeyAndNextIndexPairArray =
                              PagedPushBytes(linked, [first |-> key, second |-> UINT_MAX])]]
       ELSE HashPushFrom(t, key, item.second)

(* Mutant: the new record becomes the head of its chain and points to the  *)
(* former head.                                                            *)
HashPushAtHead(t, key) ==
    LET hash == GetHash(t, key)
        n == t.m_IndexOfTheFirstKeyWithGivenHash[hash]
        arr == t.m_KeyAndNextIndexPairArray
    IN IF HasItem(t, key) THEN [raised |-> TRUE, table |-> t]
       ELSE [raised |-> FALSE,
             table |-> [t EXCEPT
                 !.m_IndexOfTheFirstKeyWithGivenHash[hash] = arr.m_NumberOfItems,
                 !.m_KeyAndNextIndexPairArray =
                     PagedPushBytes(arr, [first |-> key, second |-> n])]]

HashPush(t, key) ==
    LET hash == GetHash(t, key)
        n == t.m_IndexOfTheFirstKeyWithGivenHash[hash]
        arr == t.m_KeyAndNextIndexPairArray
    IN IF n = UINT_MAX
       THEN [raised |-> FALSE,
             table |-> [t EXCEPT
                 !.m_IndexOfTheFirstKeyWithGivenHash[hash] = arr.m_NumberOfItems,
                 !.m_KeyAndNextIndexPairArray =
                     PagedPushBytes(arr, [first |-> key, second |-> UINT_MAX])]]
       ELSE HashPushFrom(t, key, n)

----------------------------------------------------------------------------
(* Sorting.  std::sort on fewer elements than the introsort threshold is   *)
(* an insertion sort, which moves an element left only past elements that  *)
(* compare greater; std::stable_sort orders the mask table the same way.   *)

RECURSIVE InsertBySecond(_, _)
InsertBySecond(s, x) ==
    IF s = <<>> THEN <<x>>
    ELSE IF x.second < s[Len(s)].second
    THEN Append(InsertBySecond(SubSeq(s, 1, Len(s) - 1), x), s[Len(s)])
    ELSE Append(s, x)

RECURSIVE SortBySecondFrom(_, _, _)
SortBySecondFrom(s, i, sorted) ==
    IF i > Len(s) THEN sorted
    ELSE SortBySecondFrom(s, i + 1, InsertBySecond(sorted, s[i]))

(* Mutant: the sequence is left in the order it was filled in.            *)
SortBySecondLeftAsIs(s) == s

SortBySecond(s) == SortBySecondFrom(s, 1, <<>>)

(* std::sort by the second members, by what it promises: the elements      *)
(* come out in non-decreasing order, and the order of elements that        *)
(* compare equal is not specified.  The libraries sort a short sequence by *)
(* insertion, which is SortBySecond, and a longer one (above 16 elements   *)
(* in libstdc++, above 32 in the Microsoft library) by an introsort that   *)
(* moves equal elements past each other.  StdSort gives the outcomes for a *)
(* sequence beyond that length; s is the sequence sorted by insertion.     *)
StdSort(s) ==
    {[n \in 1 .. Len(s) |-> s[p[n]]] :
        p \in {q \in [1 .. Len(s) -> 1 .. Len(s)] :
                  /\ \A a, b \in 1 .. Len(s) : a # b => q[a] # q[b]
                  /\ \A a \in 1 .. Len(s) : s[q[a]].second = s[a].second}}

(* What a query may leave in the caller's vector: r is the query's result  *)
(* with the final sort done by insertion.                                  *)
QueryOutcomes(r) ==
    IF r.raised THEN {r.keysAndDistances} ELSE StdSort(r.keysAndDistances)

RECURSIVE InsertUint(_, _)
InsertUint(s, x) ==
    IF s = <<>> THEN <<x>>
    ELSE IF x < s[Len(s)]
    THEN Append(InsertUint(SubSeq(s, 1, Len(s) - 1), x), s[Len(s)])
    ELSE Append(s, x)

RECURSIVE SortUintFrom(_, _, _)
SortUintFrom(s, i, sorted) ==
    IF i > Len(s) THEN sorted
    ELSE SortUintFrom(s, i + 1, InsertUint(sorted, s[i]))

SortUint(s) == SortUintFrom(s, 1, <<>>)

----------------------------------------------------------------------------
(* MultiIndex.                                                             *)

(* Mutant: the masks are filled in from the largest down, so masks of     *)
(* equal distance come out in descending order.                            *)
GenerateMasksDescending ==
    SortBySecond([n \in 1 .. NUMBER_OF_WORD_VARIATIONS |->
                     [first |-> NUMBER_OF_WORD_VARIATIONS - n,
                      second |-> GetPopcount(NUMBER_OF_WORD_VARIATIONS - n)]])

GenerateMasks ==
    SortBySecond([n \in 1 .. NUMBER_OF_WORD_VARIATIONS |->
                     [first |-> n - 1, second |-> GetPopcount(n - 1)]])

m_MasksAndDistances == GenerateMasks

MultiIndex ==
    [m_WordToKeyIndex |->
        [b \in 0 .. (m_NumberOfWordsInItem * NUMBER_OF_WORD_VARIATIONS - 1) |->
            MultiIndexBucket(bucketPageSize)],
     m_KeyToArrayIndexTable |-> MultiIndexHashTable(hashTableSize, pageSize),
     m_Items |-> PagedContainer(pageSize)]

GetNumberOfItems(x) == x.m_Items.m_NumberOfItems

(* Mutant: Clear leaves the buckets as they are.                           *)
ClearKeepsBuckets(x) ==
    [m_WordToKeyIndex |-> x.m_WordToKeyIndex,
     m_KeyToArrayIndexTable |-> HashClear(x.m_KeyToArrayIndexTable),
     m_Items |-> PagedClear(x.m_Items)]

(* Mutant: Clear leaves the key table as it is.                           *)
ClearKeepsKeyTable(x) ==
    [m_WordToKeyIndex |->
        [b \in DOMAIN x.m_WordToKeyIndex |-> BucketClear(x.m_WordToKeyIndex[b])],
     m_KeyToArrayIndexTable |-> x.m_KeyToArrayIndexTable,
     m_Items |-> PagedClear(x.m_Items)]

Clear(x) ==
    [m_WordToKeyIndex |->
        [b \in DOMAIN x.m_WordToKeyIndex |-> BucketClear(x.m_WordToKeyIndex[b])],
     m_KeyToArrayIndexTable |-> HashClear(x.m_KeyToArrayIndexTable),
     m_Items |-> PagedClear(x.m_Items)]

(* Mutant: the bucket index lacks the offset of the word position.        *)
RECURSIVE AddToBucketsFromWordOnly(_, _, _, _)
AddToBucketsFromWordOnly(buckets, key, item, i) ==
    IF i >= m_NumberOfWordsInItem THEN buckets
    ELSE LET bucketIndex == item[i + 1]
         IN AddToBucketsFromWordOnly(
                [buckets EXCEPT ![bucketIndex] = BucketPush(buckets[bucketIndex], key)],
                key, item, i + 1)

(* The bucket loop of AddItem, from word position i on.                    *)
RECURSIVE AddToBucketsFrom(_, _, _, _)
AddToBucketsFrom(buckets, key, item, i) ==
    IF i >= m_NumberOfWordsInItem THEN buckets
    ELSE LET word == item[i + 1]
             bucketIndex == i * NUMBER_OF_WORD_VARIATIONS + word
         IN AddToBucketsFrom(
                [buckets EXCEPT ![bucketIndex] = BucketPush(buckets[bucketIndex], key)],
                key, item, i + 1)

(* Mutant: the item is stored before the key table is asked, so a refused  *)
(* key has left its item in the item store.                                *)
AddItemStoresFirst(x, key, item) ==
    LET items == PagedPushBytes(x.m_Items, item)
        pushed == HashPush(x.m_KeyToArrayIndexTable, key)
    IN IF pushed.raised
       THEN [raised |-> TRUE, index |-> [x EXCEPT !.m_Items = items]]
       ELSE [raised |-> FALSE,
             index |-> [m_WordToKeyIndex |->
                            AddToBucketsFrom(x.m_WordToKeyIndex, key, item, 0),
                        m_KeyToArrayIndexTable |-> pushed.table,
                        m_Items |-> items]]

(* Mutant: the key is appended to the buckets before the key table is     *)
(* asked, so a refused key has already been added to them.                 *)
AddItemBucketsFirst(x, key, item) ==
    LET buckets == AddToBucketsFrom(x.m_WordToKeyIndex, key, item, 0)
        pushed == HashPush(x.m_KeyToArrayIndexTable, key)
    IN IF pushed.raised
       THEN [raised |-> TRUE, index |-> [x EXCEPT !.m_WordToKeyIndex = buckets]]
       ELSE [raised |-> FALSE,
             index |-> [m_WordToKeyIndex |-> buckets,
                        m_KeyToArrayIndexTable |-> pushed.table,
                        m_Items |-> PagedPushBytes(x.m_Items, item)]]

AddItem(x, key, item) ==
    LET pushed == HashPush(x.m_KeyToArrayIndexTable, key)
    IN IF pushed.raised THEN [raised |-> TRUE, index |-> x]
       ELSE [raised |-> FALSE,
             index |-> [m_WordToKeyIndex |->
                            AddToBucketsFrom(x.m_WordToKeyIndex, key, item, 0),
                        m_KeyToArrayIndexTable |-> pushed.table,
                        m_Items |-> PagedPushBytes(x.m_Items, item)]]

(* Mutant: the radius test excludes the boundary.                          *)
WithinRangeStrict(distance, range) == distance * RangeDen < range * ItemBits

(* currentDistance <= range, both as exact rationals.                      *)
WithinRange(distance, range) == distance * RangeDen <= range * ItemBits

(* Mutant: only the lower end of the interval is checked.                 *)
BadRangeBelowOnly(range) == range < 0

BadRange(range) == range < 0 \/ range > RangeDen

RECURSIVE ScanItemsFrom(_, _, _, _, _)
ScanItemsFrom(x, query, range, i, out) ==
    IF i >= x.m_Items.m_NumberOfItems THEN out
    ELSE LET currentItem == PagedGetItemBytes(x.m_Items, i)
             currentDistance == GetDistance(query, currentItem)
         IN ScanItemsFrom(x, query, range, i + 1,
                IF WithinRange(currentDistance, range)
                THEN Append(out, [first |-> GetKeyByIndex(x.m_KeyToArrayIndexTable, i),
                                  second |-> currentDistance])
                ELSE out)

(* A query returns [raised, keysAndDistances]: whether it threw and the    *)
(* content of the caller's vector afterwards (prior is its content before).*)
DoRangeQueryBruteForce(x, query, range, prior) ==
    IF BadRange(range) THEN [raised |-> TRUE, keysAndDistances |-> prior]
    ELSE [raised |-> FALSE,
          keysAndDistances |-> SortBySecond(ScanItemsFrom(x, query, range, 0, <<>>))]

(* Mutant: half the bit budget.                                           *)
MaxBitsChangedHalved(range) == (range * WordBits) \div (2 * RangeDen)

(* maxBitsChanged = static_cast<uint>(range * WORD_SIZE * BITS_IN_BYTE),   *)
(* for a range that passed the range check.                                *)
MaxBitsChanged(range) == (range * WordBits) \div RangeDen

(* The directory index the candidate loop reads for word position i and    *)
(* the mutated query part: m_WordToKeyIndex[maskedQueryPart].              *)
LookupBucketIndex(i, maskedQueryPart) == maskedQueryPart

(* The mask loop for one word position, from table entry j on (1-based);   *)
(* it stops at the first entry whose distance exceeds maxBitsChanged.      *)
(* lookups is the sequence of directory indexes read so far.               *)
RECURSIVE LookupMasksFrom(_, _, _, _, _)
LookupMasksFrom(queryPart, maxBitsChanged, i, j, lookups) ==
    IF j > Len(m_MasksAndDistances) THEN lookups
    ELSE LET maskAndDistance == m_MasksAndDistances[j]
         IN IF maskAndDistance.second > maxBitsChanged THEN lookups
            ELSE LET maskedQueryPart == Xor(queryPart, maskAndDistance.first)
                 IN LookupMasksFrom(queryPart, maxBitsChanged, i, j + 1,
                        Append(lookups, LookupBucketIndex(i, maskedQueryPart)))

RECURSIVE LookupsFrom(_, _, _, _)
LookupsFrom(query, maxBitsChanged, i, lookups) ==
    IF i >= m_NumberOfWordsInItem THEN lookups
    ELSE LookupsFrom(query, maxBitsChanged, i + 1,
             LookupMasksFrom(query[i + 1], maxBitsChanged, i, 1, lookups))

(* The directory indexes the candidate loops read, in the order read.      *)
Lookups(query, range) == LookupsFrom(query, MaxBitsChanged(range), 0, <<>>)

RECURSIVE CollectFromBuckets(_, _, _, _)
CollectFromBuckets(x, lookups, n, candidates) ==
    IF n > Len(lookups) THEN candidates
    ELSE CollectFromBuckets(x, lookups, n + 1,
             CollectValuesTo(x.m_WordToKeyIndex[lookups[n]], candidates))

CollectCandidates(x, query, range) ==
    CollectFromBuckets(x, Lookups(query, range), 1, <<>>)

(* Mutant: a candidate is evaluated when it is smaller than its successor. *)
RECURSIVE EvaluateCandidatesAscending(_, _, _, _, _, _)
EvaluateCandidatesAscending(x, query, range, candidates, i, out) ==
    IF i >= Len(candidates) - 1 THEN out
    ELSE LET currentKey == candidates[i + 1]
         IN IF currentKey < candidates[i + 2]
            THEN LET n == GetItemIndex(x.m_KeyToArrayIndexTable, currentKey)
                     currentItem == PagedGetItemBytes(x.m_Items, n)
                     currentDistance == GetDistance(query, currentItem)
                 IN EvaluateCandidatesAscending(x, query, range, candidates, i + 1,
                        IF WithinRange(currentDistance, range)
                        THEN Append(out, [first |-> currentKey,
                                          second |-> currentDistance])
                        ELSE out)
            ELSE EvaluateCandidatesAscending(x, query, range, candidates, i + 1, out)

(* The distance loop over the sorted candidates, which end with the        *)
(* sentinel element; i is the code's 0-based loop variable.                *)
RECURSIVE EvaluateCandidatesFrom(_, _, _, _, _, _)
EvaluateCandidatesFrom(x, query, range, candidates, i, out) ==
    IF i >= Len(candidates) - 1 THEN out
    ELSE LET currentKey == candidates[i + 1]
         IN IF currentKey # candidates[i + 2]
            THEN LET n == GetItemIndex(x.m_KeyToArrayIndexTable, currentKey)
                     currentItem == PagedGetItemBytes(x.m_Items, n)
                     currentDistance == GetDistance(query, currentItem)
                 IN EvaluateCandidatesFrom(x, query, range, candidates, i + 1,
                        IF WithinRange(currentDistance, range)
                        THEN Append(out, [first |-> currentKey,
                                          second |-> currentDistance])
                        ELSE out)
            ELSE EvaluateCandidatesFrom(x, query, range, candidates, i + 1, out)

(* DoRangeQueryOptimized below its brute-force test: the multi-index path. *)
DoRangeQueryByMultiIndex(x, query, range, prior) ==
    IF BadRange(range) THEN [raised |-> TRUE, keysAndDistances |-> prior]
    ELSE LET candidates == CollectCandidates(x, query, range)
         IN IF Len(candidates) = 0
            THEN [raised |-> FALSE, keysAndDistances |-> <<>>]
            ELSE LET sorted == SortUint(candidates)
                     withSentinel == Append(sorted, (sorted[Len(sorted)] + 1) % (2 ^ UintBits))
                 IN [raised |-> FALSE,
                     keysAndDistances |->
                         SortBySecond(EvaluateCandidatesFrom(x, query, range,
                                          withSentinel, 0, <<>>))]

(* Mutant: the brute-force test is missing.                               *)
DoRangeQueryOptimizedNeverBruteForce(x, bound, query, range, prior) ==
    DoRangeQueryByMultiIndex(x, query, range, prior)

DoRangeQueryOptimized(x, bound, query, range, prior) ==
    IF range > bound THEN DoRangeQueryBruteForce(x, query, range, prior)
    ELSE DoRangeQueryByMultiIndex(x, query, range, prior)

(* Mutant: numberOfTrulyAdded is incremented before AddItem is called.    *)
RECURSIVE AddItemsCountingOffers(_, _, _, _)
AddItemsCountingOffers(x, batch, i, numberOfTrulyAdded) ==
    IF i >= Len(batch)
    THEN [index |-> x, numberOfTrulyAdded |-> numberOfTrulyAdded]
    ELSE AddItemsCountingOffers(AddItem(x, batch[i + 1].key, batch[i + 1].item).index,
                                batch, i + 1, numberOfTrulyAdded + 1)

(* AddItems of the dynamic library: the batch is a sequence of             *)
(* [key, item]; returns the index and numberOfTrulyAdded.                  *)
RECURSIVE AddItemsFrom(_, _, _, _)
AddItemsFrom(x, batch, i, numberOfTrulyAdded) ==
    IF i >= Len(batch)
    THEN [index |-> x, numberOfTrulyAdded |-> numberOfTrulyAdded]
    ELSE LET r == AddItem(x, batch[i + 1].key, batch[i + 1].item)
         IN IF r.raised THEN AddItemsFrom(x, batch, i + 1, numberOfTrulyAdded)
            ELSE AddItemsFrom(r.index, batch, i + 1, numberOfTrulyAdded + 1)

AddItems(x, batch) == AddItemsFrom(x, batch, 0, 0)

----------------------------------------------------------------------------
(* Construction.  The constructor is given as a function of its arguments, *)
(* of whether the CPU reports POPCNT (bit 23 of ECX of cpuid leaf 1) and   *)
(* of whether the build defines NDEBUG; it returns the exception that      *)
(* leaves it and the index it yields.  The members are initialised in the  *)
(* order of their declaration, before the constructor body runs.           *)

MaxBytes == 17
MaxSize == 2

WORD_SIZE == 2
ITEM_SIZE_ALIGNMENT == 8
SIZEOF_PAIR == 8

NoIndex == [m_NumberOfItems |-> "no index"]
NoException == "none"

CtorParams ==
    [itemBytesNumber : 0 .. MaxBytes,
     bucketPageSize : 0 .. MaxSize,
     hashTableSize : 0 .. MaxSize,
     pageSize : 0 .. MaxSize,
     bruteForceBound : BruteForceBounds,
     cpuHasPopcnt : BOOLEAN,
     ndebug : BOOLEAN]

Thrown(exception, what) == [exception |-> exception, what |-> what, index |-> NoIndex]

(* assert(false); throw invalid_argument(...): the assertion ends the      *)
(* process unless NDEBUG is defined.                                       *)
AssertFalseThenThrow(ndebug, what) ==
    IF ndebug THEN Thrown("invalid_argument", what) ELSE Thrown("abort", what)

(* The checks of the constructor of MultiIndexPagedContainer.              *)
PagedContainerCtor(itemSizeInBytes, numberOfItemsPerPage, ndebug) ==
    IF itemSizeInBytes = 0
    THEN AssertFalseThenThrow(ndebug, "Argument itemSizeInBytes = 0!")
    ELSE IF numberOfItemsPerPage = 0
    THEN AssertFalseThenThrow(ndebug, "Argument numberOfItemsPerPage = 0!")
    ELSE [exception |-> NoException, what |-> "",
          index |-> PagedContainer(numberOfItemsPerPage)]

(* The check of the constructor of MultiIndexBucket.                       *)
BucketCtor(perPage, ndebug) ==
    IF perPage = 0
    THEN AssertFalseThenThrow(ndebug, "Template parameter NUMBER_OF_ITEMS_PER_PAGE = 0")
    ELSE [exception |-> NoException, what |-> "", index |-> MultiIndexBucket(perPage)]

(* The constructor of MultiIndexHashTable: the directory, then the chain   *)
(* records in a paged container of pair<uint, uint>.                       *)
HashTableCtor(size, perPage, ndebug) ==
    LET arr == PagedContainerCtor(SIZEOF_PAIR, perPage, ndebug)
    IN IF arr.exception # NoException THEN arr
       ELSE [exception |-> NoException, what |-> "",
             index |-> MultiIndexHashTable(size, perPage)]

(* CheckPopcountSupport of the build, which defines                        *)
(* _FAST_HAMMING_INDEX_USE_AMD_SSE4A: TRUE when it throws.                 *)
CheckPopcountSupport(cpuHasPopcnt) == ~cpuHasPopcnt

MultiIndexCtor(p) ==
    LET bucket == BucketCtor(p.bucketPageSize, p.ndebug)
        table == HashTableCtor(p.hashTableSize, p.pageSize, p.ndebug)
        items == PagedContainerCtor(p.itemBytesNumber, p.pageSize, p.ndebug)
    IN IF bucket.exception # NoException THEN bucket
       ELSE IF table.exception # NoException THEN table
       ELSE IF items.exception # NoException THEN items
       ELSE IF p.itemBytesNumber % ITEM_SIZE_ALIGNMENT # 0
       THEN Thrown("MultiIndexException", "Parameter itemBytesNumber should be divisible by 8")
       ELSE IF p.hashTableSize = 0
       THEN Thrown("MultiIndexException", "Parameter keyHashTableSize = 0")
       ELSE IF p.pageSize = 0
       THEN Thrown("MultiIndexException", "Parameter pageSize = 0")
       ELSE IF CheckPopcountSupport(p.cpuHasPopcnt)
       THEN Thrown("MultiIndexException", "CPU does not support POPCNT")
       ELSE [exception |-> NoException, what |-> "",
             index |->
                 [m_WordToKeyIndex |->
                      [b \in 0 .. ((p.itemBytesNumber * NUMBER_OF_WORD_VARIATIONS)
                                      \div WORD_SIZE - 1) |-> bucket.index],
                  m_KeyToArrayIndexTable |-> table.index,
                  m_Items |-> items.index]]

----------------------------------------------------------------------------
(* The state machine.  A call runs to completion in one step and leaves    *)
(* its record in lastCall; ReturnToCaller hands control back to the        *)
(* caller, whose output vector then goes out of scope.                     *)

NoCall == [op |-> "none"]

(* The lock when no thread is inside it, and the threads of a program that *)
(* uses the library without the managed wrapper.                           *)
Free == 0
NoThreads == <<>>

(* What the caller's output vector may hold when it is passed to a query.  *)
PriorOutputs == {<<>>, <<[first |-> 0, second |-> 0]>>}

(* The vectors offered in batches: all bits clear and all bits set.        *)
BatchItems == <<[i \in 1 .. m_NumberOfWordsInItem |-> 0],
                [i \in 1 .. m_NumberOfWordsInItem |-> NUMBER_OF_WORD_VARIATIONS - 1]>>

RECURSIVE SeqsUpTo(_, _)
SeqsUpTo(S, n) ==
    IF n = 0 THEN {<<>>}
    ELSE LET shorter == SeqsUpTo(S, n - 1)
         IN shorter \cup {Append(q, e) : q \in shorter, e \in S}

(* The batches offered: any sequence of keys of length at most MaxBatch,   *)
(* the two vectors alternating along the batch from either of them, so     *)
(* that a key offered twice comes with the same or with a different vector.*)
Batches ==
    {[n \in 1 .. Len(ks) |-> [key |-> ks[n], item |-> BatchItems[((start + n) % 2) + 1]]] :
        ks \in SeqsUpTo(Keys, MaxBatch), start \in {0, 1}}

(* The history after a batch: the pairs whose AddItem did not throw.       *)
RECURSIVE AddedByBatchFrom(_, _, _, _)
AddedByBatchFrom(x, batch, i, history) ==
    IF i >= Len(batch) THEN history
    ELSE LET r == AddItem(x, batch[i + 1].key, batch[i + 1].item)
         IN AddedByBatchFrom(r.index, batch, i + 1,
                IF r.raised THEN history ELSE Append(history, batch[i + 1]))

SetIndex(x) ==
    /\ m_WordToKeyIndex' = x.m_WordToKeyIndex
    /\ m_KeyToArrayIndexTable' = x.m_KeyToArrayIndexTable
    /\ m_Items' = x.m_Items

Init ==
    /\ m_WordToKeyIndex = MultiIndex.m_WordToKeyIndex
    /\ m_KeyToArrayIndexTable = MultiIndex.m_KeyToArrayIndexTable
    /\ m_Items = MultiIndex.m_Items
    /\ m_BruteForceBound \in BruteForceBounds
    /\ keysAndDistances = <<>>
    /\ lastCall = NoCall
    /\ added = <<>>
    /\ pc = NoThreads
    /\ m_LockObject = Free
    /\ heap = EmptyHeap

AddItemCall ==
    /\ lastCall = NoCall
    /\ \E key \in Keys, item \in Vectors :
        /\ GetNumberOfItems(this) < MaxItems \/ HasItem(m_KeyToArrayIndexTable, key)
        /\ LET r == AddItem(this, key, item)
           IN /\ SetIndex(r.index)
              /\ lastCall' = [op |-> "AddItem", key |-> key, item |-> item,
                              raised |-> r.raised]
              /\ added' = IF r.raised THEN added
                          ELSE Append(added, [key |-> key, item |-> item])
    /\ UNCHANGED <<m_BruteForceBound, keysAndDistances>>
    /\ UNCHANGED <<wrapper, heap>>

ClearCall ==
    /\ lastCall = NoCall
    /\ SetIndex(Clear(this))
    /\ lastCall' = [op |-> "Clear", numberOfItems |-> GetNumberOfItems(this)]
    /\ added' = <<>>
    /\ UNCHANGED <<m_BruteForceBound, keysAndDistances>>
    /\ UNCHANGED <<wrapper, heap>>

DoRangeQueryBruteForceCall ==
    /\ lastCall = NoCall
    /\ \E query \in Vectors, range \in Ranges, prior \in PriorOutputs :
        LET r == DoRangeQueryBruteForce(this, query, range, prior)
        IN /\ keysAndDistances' = r.keysAndDistances
           /\ lastCall' = [op |-> "DoRangeQueryBruteForce", query |-> query,
                           range |-> range, prior |-> prior, raised |-> r.raised]
    /\ UNCHANGED <<m_WordToKeyIndex, m_KeyToArrayIndexTable, m_Items,
                   m_BruteForceBound, added>>
    /\ UNCHANGED <<wrapper, heap>>

(* Mutant: a query that throws bad range has cleared the index first.      *)
DoRangeQueryOptimizedCallClearing ==
    /\ lastCall = NoCall
    /\ \E query \in Vectors, range \in Ranges, prior \in PriorOutputs :
        LET r == DoRangeQueryOptimized(this, m_BruteForceBound, query, range, prior)
        IN /\ keysAndDistances' = r.keysAndDistances
           /\ lastCall' = [op |-> "DoRangeQueryOptimized", query |-> query,
                           range |-> range, prior |-> prior, raised |-> r.raised]
           /\ IF r.raised THEN SetIndex(Clear(this))
              ELSE UNCHANGED <<m_WordToKeyIndex, m_KeyToArrayIndexTable, m_Items>>
    /\ UNCHANGED <<m_BruteForceBound, added>>
    /\ UNCHANGED <<wrapper, heap>>

DoRangeQueryOptimizedCall ==
    /\ lastCall = NoCall
    /\ \E query \in Vectors, range \in Ranges, prior \in PriorOutputs :
        LET r == DoRangeQueryOptimized(this, m_BruteForceBound, query, range, prior)
        IN /\ keysAndDistances' = r.keysAndDistances
           /\ lastCall' = [op |-> "DoRangeQueryOptimized", query |-> query,
                           range |-> range, prior |-> prior, raised |-> r.raised]
    /\ UNCHANGED <<m_WordToKeyIndex, m_KeyToArrayIndexTable, m_Items,
                   m_BruteForceBound, added>>
    /\ UNCHANGED <<wrapper, heap>>

AddItemsCall ==
    /\ lastCall = NoCall
    /\ \E batch \in Batches :
        LET r == AddItems(this, batch)
        IN /\ GetNumberOfItems(r.index) <= MaxItems
           /\ SetIndex(r.index)
           /\ lastCall' = [op |-> "AddItems", batch |-> batch,
                           numberOfTrulyAdded |-> r.numberOfTrulyAdded]
           /\ added' = AddedByBatchFrom(this, batch, 0, added)
    /\ UNCHANGED <<m_BruteForceBound, keysAndDistances>>
    /\ UNCHANGED <<wrapper, heap>>

ReturnToCaller ==
    /\ lastCall # NoCall
    /\ lastCall' = NoCall
    /\ keysAndDistances' = <<>>
    /\ UNCHANGED <<m_WordToKeyIndex, m_KeyToArrayIndexTable, m_Items,
                   m_BruteForceBound, added>>
    /\ UNCHANGED <<wrapper, heap>>

Next ==
    \/ AddItemCall
    \/ ClearCall
    \/ DoRangeQueryBruteForceCall
    \/ DoRangeQueryOptimizedCall
    \/ ReturnToCaller

Spec == Init /\ [][Next]_vars

NextBatch ==
    \/ AddItemsCall
    \/ ClearCall
    \/ ReturnToCaller

SpecBatch == Init /\ [][NextBatch]_vars

(* An index whose keys reach up to UINT_MAX, the largest value of a key,   *)
(* queried by DoRangeQueryOptimized.                                       *)

LimitKeys == {0, UINT_MAX}

AddItemCallAtKeyLimit ==
    /\ lastCall = NoCall
    /\ \E key \in LimitKeys, n \in DOMAIN BatchItems :
        /\ GetNumberOfItems(this) < MaxItems \/ HasItem(m_KeyToArrayIndexTable, key)
        /\ LET r == AddItem(this, key, BatchItems[n])
           IN /\ SetIndex(r.index)
              /\ lastCall' = [op |-> "AddItem", key |-> key, item |-> BatchItems[n],
                              raised |-> r.raised]
              /\ added' = IF r.raised THEN added
                          ELSE Append(added, [key |-> key, item |-> BatchItems[n]])
    /\ UNCHANGED <<m_BruteForceBound, keysAndDistances>>
    /\ UNCHANGED <<wrapper, heap>>

NextKeyLimit ==
    \/ AddItemCallAtKeyLimit
    \/ ClearCall
    \/ DoRangeQueryOptimizedCall
    \/ ReturnToCaller

SpecKeyLimit == Init /\ [][NextKeyLimit]_vars

(* Queries whose results are more than the library sorts by insertion:     *)
(* the final std::sort leaves results of equal distance in any order.      *)

DoRangeQueryBruteForceCallLong ==
    /\ lastCall = NoCall
    /\ \E query \in Vectors, range \in Ranges, prior \in PriorOutputs :
        LET r == DoRangeQueryBruteForce(this, query, range, prior)
        IN /\ keysAndDistances' \in QueryOutcomes(r)
           /\ lastCall' = [op |-> "DoRangeQueryBruteForce", query |-> query,
                           range |-> range, prior |-> prior, raised |-> r.raised]
    /\ UNCHANGED <<m_WordToKeyIndex, m_KeyToArrayIndexTable, m_Items,
                   m_BruteForceBound, added>>
    /\ UNCHANGED <<wrapper, heap>>

DoRangeQueryOptimizedCallLong ==
    /\ lastCall = NoCall
    /\ \E query \in Vectors, range \in Ranges, prior \in PriorOutputs :
        LET r == DoRangeQueryOptimized(this, m_BruteForceBound, query, range, prior)
        IN /\ keysAndDistances' \in QueryOutcomes(r)
           /\ lastCall' = [op |-> "DoRangeQueryOptimized", query |-> query,
                           range |-> range, prior |-> prior, raised |-> r.raised]
    /\ UNCHANGED <<m_WordToKeyIndex, m_KeyToArrayIndexTable, m_Items,
                   m_BruteForceBound, added>>
    /\ UNCHANGED <<wrapper, heap>>

NextLong ==
    \/ AddItemCallAtKeyLimit
    \/ ClearCall
    \/ DoRangeQueryBruteForceCallLong
    \/ DoRangeQueryOptimizedCallLong
    \/ ReturnToCaller

SpecLong == Init /\ [][NextLong]_vars

(* Buckets on their own, in a vector<MultiIndexBucket>: Push, Clear and    *)
(* CollectValuesTo in any order on a vector of one bucket, of any page     *)
(* capacity up to MaxPageCapacity.  added[b] is the history of bucket b:   *)
(* the values pushed to it since its last Clear.                           *)

Accumulators == {<<>>, <<MaxKey>>}

InitBucket ==
    /\ m_WordToKeyIndex \in {<<LinkedBucket(P)>> : P \in 1 .. MaxPageCapacity}
    /\ m_KeyToArrayIndexTable = NoIndex
    /\ m_Items = NoIndex
    /\ m_BruteForceBound = NoIndex
    /\ keysAndDistances = <<>>
    /\ lastCall = NoCall
    /\ added = << <<>> >>
    /\ pc = NoThreads
    /\ m_LockObject = Free
    /\ heap = EmptyHeap

LinkedPushCall ==
    /\ lastCall = NoCall
    /\ \E b \in DOMAIN m_WordToKeyIndex, newValue \in BucketValues :
        /\ m_WordToKeyIndex[b].m_NumberOfItems < MaxBucketItems
        /\ FreeAddresses(heap) # {}
        /\ LET r == LinkedPush(heap, m_WordToKeyIndex[b], newValue)
           IN /\ heap' = r.heap
              /\ m_WordToKeyIndex' = [m_WordToKeyIndex EXCEPT ![b] = r.bucket]
              /\ added' = [added EXCEPT ![b] = Append(@, newValue)]
              /\ lastCall' = [op |-> "Push", bucket |-> b, newValue |-> newValue]
    /\ UNCHANGED <<m_KeyToArrayIndexTable, m_Items, m_BruteForceBound,
                   keysAndDistances>>
    /\ UNCHANGED wrapper

LinkedClearCall ==
    /\ lastCall = NoCall
    /\ \E b \in DOMAIN m_WordToKeyIndex :
        LET r == LinkedClear(heap, m_WordToKeyIndex[b])
        IN /\ heap' = r.heap
           /\ m_WordToKeyIndex' = [m_WordToKeyIndex EXCEPT ![b] = r.bucket]
           /\ added' = [added EXCEPT ![b] = <<>>]
           /\ lastCall' = [op |-> "Clear", bucket |-> b]
    /\ UNCHANGED <<m_KeyToArrayIndexTable, m_Items, m_BruteForceBound,
                   keysAndDistances>>
    /\ UNCHANGED wrapper

LinkedCollectValuesToCall ==
    /\ lastCall = NoCall
    /\ \E b \in DOMAIN m_WordToKeyIndex, accumulator \in Accumulators :
        lastCall' = [op |-> "CollectValuesTo", bucket |-> b, prior |-> accumulator,
                     accumulator |->
                         LinkedCollectValuesTo(heap, m_WordToKeyIndex[b], accumulator)]
    /\ UNCHANGED <<m_WordToKeyIndex, m_KeyToArrayIndexTable, m_Items,
                   m_BruteForceBound, keysAndDistances, added>>
    /\ UNCHANGED <<wrapper, heap>>

NextBucket ==
    \/ LinkedPushCall
    \/ LinkedClearCall
    \/ LinkedCollectValuesToCall
    \/ ReturnToCaller

SpecBucket == InitBucket /\ [][NextBucket]_vars

(* The vector grows by a copy of its bucket, shrinks again, and its        *)
(* buckets are assigned to each other.  A call that ends the process is    *)
(* followed by a new process, with a new vector and an empty heap.         *)

Restarted(op) ==
    /\ m_WordToKeyIndex' = <<LinkedBucket(m_WordToKeyIndex[1].m_NumberOfItemsPerPage)>>
    /\ heap' = EmptyHeap
    /\ added' = << <<>> >>
    /\ lastCall' = [op |-> op, crashed |-> TRUE]

LinkedBucketCopyCall ==
    /\ lastCall = NoCall
    /\ Len(m_WordToKeyIndex) = 1
    /\ GetNumberOfPages(m_WordToKeyIndex[1]) <= Cardinality(FreeAddresses(heap))
    /\ \E r \in LinkedBucketCopy(heap, m_WordToKeyIndex[1]) :
        IF r.crashed THEN Restarted("MultiIndexBucket")
        ELSE /\ heap' = r.heap
             /\ m_WordToKeyIndex' = Append(m_WordToKeyIndex, r.bucket)
             /\ added' = Append(added, added[1])
             /\ lastCall' = [op |-> "MultiIndexBucket", crashed |-> FALSE,
                             source |-> 1, target |-> 2]
    /\ UNCHANGED <<m_KeyToArrayIndexTable, m_Items, m_BruteForceBound,
                   keysAndDistances>>
    /\ UNCHANGED wrapper

(* ~MultiIndexBucket of the last bucket of the vector: Clear.              *)
LinkedBucketDtorCall ==
    /\ lastCall = NoCall
    /\ Len(m_WordToKeyIndex) = 2
    /\ heap' = LinkedClear(heap, m_WordToKeyIndex[2]).heap
    /\ m_WordToKeyIndex' = SubSeq(m_WordToKeyIndex, 1, 1)
    /\ added' = SubSeq(added, 1, 1)
    /\ lastCall' = [op |-> "~MultiIndexBucket", bucket |-> 2]
    /\ UNCHANGED <<m_KeyToArrayIndexTable, m_Items, m_BruteForceBound,
                   keysAndDistances>>
    /\ UNCHANGED wrapper

LinkedBucketAssignCall ==
    /\ lastCall = NoCall
    /\ Len(m_WordToKeyIndex) = 2
    /\ \E target \in DOMAIN m_WordToKeyIndex, source \in DOMAIN m_WordToKeyIndex :
        /\ target # source
        /\ GetNumberOfPages(m_WordToKeyIndex[source]) <= Cardinality(FreeAddresses(heap))
        /\ \E r \in LinkedBucketAssign(heap, m_WordToKeyIndex[target],
                                       m_WordToKeyIndex[source]) :
            IF r.crashed THEN Restarted("operator=")
            ELSE /\ heap' = r.heap
                 /\ m_WordToKeyIndex' = [m_WordToKeyIndex EXCEPT ![target] = r.bucket]
                 /\ added' = [added EXCEPT ![target] = added[source]]
                 /\ lastCall' = [op |-> "operator=", crashed |-> FALSE,
                                 source |-> source, target |-> target]
    /\ UNCHANGED <<m_KeyToArrayIndexTable, m_Items, m_BruteForceBound,
                   keysAndDistances>>
    /\ UNCHANGED wrapper

NextBucketCopy ==
    \/ LinkedPushCall
    \/ LinkedClearCall
    \/ LinkedBucketCopyCall
    \/ LinkedBucketDtorCall
    \/ LinkedBucketAssignCall
    \/ ReturnToCaller

SpecBucketCopy == InitBucket /\ [][NextBucketCopy]_vars

(* Construction and destruction of an index by a caller that holds at most *)
(* one index.                                                              *)

InitCtor ==
    /\ m_WordToKeyIndex = NoIndex
    /\ m_KeyToArrayIndexTable = NoIndex
    /\ m_Items = NoIndex
    /\ m_BruteForceBound = NoIndex
    /\ keysAndDistances = <<>>
    /\ lastCall = NoCall
    /\ added = <<>>
    /\ pc = NoThreads
    /\ m_LockObject = Free
    /\ heap = EmptyHeap

MultiIndexCtorCall ==
    /\ lastCall = NoCall
    /\ m_Items = NoIndex
    /\ \E p \in CtorParams :
        LET r == MultiIndexCtor(p)
        IN /\ IF r.exception = NoException
              THEN SetIndex(r.index) /\ m_BruteForceBound' = p.bruteForceBound
              ELSE UNCHANGED <<m_WordToKeyIndex, m_KeyToArrayIndexTable, m_Items,
                               m_BruteForceBound>>
           /\ lastCall' = [op |-> "MultiIndex", p |-> p,
                           exception |-> r.exception, what |-> r.what]
    /\ UNCHANGED <<keysAndDistances, added>>
    /\ UNCHANGED <<wrapper, heap>>

(* ~MultiIndex: Clear, then the members are destroyed.                     *)
MultiIndexDtorCall ==
    /\ lastCall = NoCall
    /\ m_Items # NoIndex
    /\ m_WordToKeyIndex' = NoIndex
    /\ m_KeyToArrayIndexTable' = NoIndex
    /\ m_Items' = NoIndex
    /\ m_BruteForceBound' = NoIndex
    /\ lastCall' = [op |-> "~MultiIndex", numberOfItems |-> GetNumberOfItems(this)]
    /\ added' = <<>>
    /\ UNCHANGED keysAndDistances
    /\ UNCHANGED <<wrapper, heap>>

NextCtor ==
    \/ MultiIndexCtorCall
    \/ MultiIndexDtorCall
    \/ ReturnToCaller

SpecCtor == InitCtor /\ [][NextCtor]_vars

(* A key table on its own: Push and Clear in any order.  The keys include  *)
(* UINT_MAX, the value the ordinals use as their sentinel.                 *)

TableKeys == Keys \cup {UINT_MAX}

InitKeyTable ==
    /\ m_WordToKeyIndex = NoIndex
    /\ m_KeyToArrayIndexTable = MultiIndexHashTable(hashTableSize, pageSize)
    /\ m_Items = NoIndex
    /\ m_BruteForceBound = NoIndex
    /\ keysAndDistances = <<>>
    /\ lastCall = NoCall
    /\ added = <<>>
    /\ pc = NoThreads
    /\ m_LockObject = Free
    /\ heap = EmptyHeap

HashPushCall ==
    /\ lastCall = NoCall
    /\ \E key \in TableKeys :
        LET r == HashPush(m_KeyToArrayIndexTable, key)
        IN /\ m_KeyToArrayIndexTable' = r.table
           /\ lastCall' = [op |-> "Push", key |-> key, raised |-> r.raised]
           /\ added' = IF r.raised THEN added ELSE Append(added, [key |-> key])
    /\ UNCHANGED <<m_WordToKeyIndex, m_Items, m_BruteForceBound, keysAndDistances>>
    /\ UNCHANGED <<wrapper, heap>>

HashClearCall ==
    /\ lastCall = NoCall
    /\ m_KeyToArrayIndexTable' = HashClear(m_KeyToArrayIndexTable)
    /\ lastCall' = [op |-> "Clear",
                    numberOfItems |-> HashGetNumberOfItems(m_KeyToArrayIndexTable)]
    /\ added' = <<>>
    /\ UNCHANGED <<m_WordToKeyIndex, m_Items, m_BruteForceBound, keysAndDistances>>
    /\ UNCHANGED <<wrapper, heap>>

NextKeyTable ==
    \/ HashPushCall
    \/ HashClearCall
    \/ ReturnToCaller

SpecKeyTable == InitKeyTable /\ [][NextKeyTable]_vars

(* A paged container on its own: PushBytes and Clear in any order, up to   *)
(* MaxRecords records.                                                     *)

MaxRecords == 5

PagedRecords == {BatchItems[1], BatchItems[2]}

InitPaged ==
    /\ m_WordToKeyIndex = NoIndex
    /\ m_KeyToArrayIndexTable = NoIndex
    /\ m_Items = PagedContainer(pageSize)
    /\ m_BruteForceBound = NoIndex
    /\ keysAndDistances = <<>>
    /\ lastCall = NoCall
    /\ added = <<>>
    /\ pc = NoThreads
    /\ m_LockObject = Free
    /\ heap = EmptyHeap

PagedPushBytesCall ==
    /\ lastCall = NoCall
    /\ m_Items.m_NumberOfItems < MaxRecords
    /\ \E itemBytes \in PagedRecords :
        /\ m_Items' = PagedPushBytes(m_Items, itemBytes)
        /\ lastCall' = [op |-> "PushBytes", itemBytes |-> itemBytes]
        /\ added' = Append(added, [item |-> itemBytes])
    /\ UNCHANGED <<m_WordToKeyIndex, m_KeyToArrayIndexTable, m_BruteForceBound,
                   keysAndDistances>>
    /\ UNCHANGED <<wrapper, heap>>

PagedClearCall ==
    /\ lastCall = NoCall
    /\ m_Items' = PagedClear(m_Items)
    /\ lastCall' = [op |-> "Clear", numberOfItems |-> m_Items.m_NumberOfItems]
    /\ added' = <<>>
    /\ UNCHANGED <<m_WordToKeyIndex, m_KeyToArrayIndexTable, m_BruteForceBound,
                   keysAndDistances>>
    /\ UNCHANGED <<wrapper, heap>>

NextPaged ==
    \/ PagedPushBytesCall
    \/ PagedClearCall
    \/ ReturnToCaller

SpecPaged == InitPaged /\ [][NextPaged]_vars

(* The managed wrapper: NumThreads threads call the public entry points of *)
(* one MultiIndex object.  An entry point is a sequence of steps: the      *)
(* checks before the lock statement, entering the lock, the checks and the *)
(* marshalling inside it, the native call (which begins and returns in     *)
(* separate steps), the decoding of the results, and leaving the lock      *)
(* statement, which happens on a normal exit and on an exception alike.    *)

NumThreads == 2

Threads == 1 .. NumThreads

WrapperKeys == {0, MaxKey}

(* An item of m_ItemBytesNumber bytes and one that is shorter.             *)
WrapperItem == BatchItems[1]
WrapperShortItem == <<0>>

WrapperCalls ==
    {[op |-> "GetNumberOfItems"], [op |-> "Clear"]}
    \cup {[op |-> "AddItems", keys |-> <<>>, items |-> <<>>],
          [op |-> "AddItems", keys |-> <<0>>, items |-> <<>>],
          [op |-> "AddItems", keys |-> <<0>>, items |-> <<WrapperShortItem>>]}
    \cup {[op |-> "AddItems", keys |-> <<k>>, items |-> <<WrapperItem>>] :
             k \in WrapperKeys}
    \cup {[op |-> o, query |-> WrapperItem, range |-> r] :
             o \in {"DoRangeQueryBruteForce", "DoRangeQueryOptimized"},
             r \in {0 - 1, 0}}

Idle == [at |-> "idle"]

(* The result buffer of the native query: the pairs one after the other,   *)
(* of each the key and then the distance (memcpy of pair<uint, float>      *)
(* elements); nullptr, here the empty buffer, when there are no results.   *)
NativeResults(temporaryResults) ==
    [n \in 1 .. (2 * Len(temporaryResults)) |->
        IF n % 2 = 1 THEN temporaryResults[(n + 1) \div 2].first
        ELSE temporaryResults[n \div 2].second]

(* The decoding loop from its i-th round on: ReadUInt32 and ReadSingle     *)
(* take the next two values of the stream and throw at its end.            *)
RECURSIVE ReadResultsFrom(_, _, _, _)
ReadResultsFrom(memoryStream, i, numberOfResults, list) ==
    IF i >= numberOfResults THEN [thrown |-> "none", keysAndDistances |-> list]
    ELSE IF 2 * i + 2 > Len(memoryStream)
    THEN [thrown |-> "EndOfStreamException", keysAndDistances |-> list]
    ELSE ReadResultsFrom(memoryStream, i + 1, numberOfResults,
             Append(list, [first |-> memoryStream[2 * i + 1],
                           second |-> memoryStream[2 * i + 2]]))

(* Mutant: the lock statement lets every thread in.                        *)
LockAlwaysAvailable(holder) == TRUE

(* lock (m_LockObject) lets a thread in when no thread is inside.          *)
LockAvailable(holder) == holder = Free

InitWrapper ==
    /\ m_WordToKeyIndex = MultiIndex.m_WordToKeyIndex
    /\ m_KeyToArrayIndexTable = MultiIndex.m_KeyToArrayIndexTable
    /\ m_Items = MultiIndex.m_Items
    /\ m_BruteForceBound \in BruteForceBounds
    /\ keysAndDistances = <<>>
    /\ lastCall = NoCall
    /\ added = <<>>
    /\ pc = [t \in Threads |-> Idle]
    /\ m_LockObject = Free
    /\ heap = EmptyHeap

(* The entry point up to its lock statement: the handle is not null; the   *)
(* AddItems check keys.Count != items.Count throws before the lock.        *)
WrapperEnter(t) ==
    /\ pc[t].at = "idle"
    /\ \E call \in WrapperCalls :
        pc' = [pc EXCEPT ![t] =
                  IF call.op = "AddItems" /\ Len(call.keys) # Len(call.items)
                  THEN Idle
                  ELSE [at |-> "lock", call |-> call]]
    /\ UNCHANGED <<m_WordToKeyIndex, m_KeyToArrayIndexTable, m_Items,
                   m_BruteForceBound, keysAndDistances, lastCall, added, m_LockObject>>
    /\ UNCHANGED heap

WrapperLock(t) ==
    /\ pc[t].at = "lock"
    /\ LockAvailable(m_LockObject)
    /\ m_LockObject' = t
    /\ pc' = [pc EXCEPT ![t] = [at |-> "locked", call |-> pc[t].call]]
    /\ UNCHANGED <<m_WordToKeyIndex, m_KeyToArrayIndexTable, m_Items,
                   m_BruteForceBound, keysAndDistances, lastCall, added>>
    /\ UNCHANGED heap

(* Inside the lock, up to the native call: AddItems throws when an item    *)
(* has not m_ItemBytesNumber bytes; otherwise the native function is       *)
(* entered.                                                                *)
WrapperCallNative(t) ==
    /\ pc[t].at = "locked"
    /\ LET call == pc[t].call
       IN pc' = [pc EXCEPT ![t] =
                    IF call.op = "AddItems"
                       /\ \E n \in 1 .. Len(call.items) :
                              Len(call.items[n]) # m_NumberOfWordsInItem
                    THEN [at |-> "unlock", call |-> call, thrown |-> "Exception"]
                    ELSE [at |-> "native", call |-> call]]
    /\ UNCHANGED <<m_WordToKeyIndex, m_KeyToArrayIndexTable, m_Items,
                   m_BruteForceBound, keysAndDistances, lastCall, added, m_LockObject>>
    /\ UNCHANGED heap

(* The native function runs on the index and returns or throws.            *)
WrapperNativeReturn(t) ==
    /\ pc[t].at = "native"
    /\ LET call == pc[t].call
           batch == IF call.op = "AddItems"
                    THEN [n \in 1 .. Len(call.keys) |->
                             [key |-> call.keys[n], item |-> call.items[n]]]
                    ELSE <<>>
           query == IF call.op = "DoRangeQueryBruteForce"
                    THEN DoRangeQueryBruteForce(this, call.query, call.range, <<>>)
                    ELSE IF call.op = "DoRangeQueryOptimized"
                    THEN DoRangeQueryOptimized(this, m_BruteForceBound, call.query,
                                               call.range, <<>>)
                    ELSE [raised |-> FALSE, keysAndDistances |-> <<>>]
       IN /\ IF call.op = "Clear"
             THEN SetIndex(Clear(this)) /\ added' = <<>>
             ELSE IF call.op = "AddItems"
             THEN /\ SetIndex(AddItems(this, batch).index)
                  /\ added' = AddedByBatchFrom(this, batch, 0, added)
             ELSE UNCHANGED <<m_WordToKeyIndex, m_KeyToArrayIndexTable, m_Items, added>>
          /\ pc' = [pc EXCEPT ![t] =
                       IF query.raised
                       THEN [at |-> "unlock", call |-> call, thrown |-> "SEHException"]
                       ELSE IF call.op \in {"DoRangeQueryBruteForce",
                                            "DoRangeQueryOptimized"}
                       THEN [at |-> "decode", call |-> call,
                             results |-> NativeResults(query.keysAndDistances),
                             numberOfResults |-> Len(query.keysAndDistances)]
                       ELSE [at |-> "unlock", call |-> call, thrown |-> "none"]]
    /\ UNCHANGED <<m_BruteForceBound, keysAndDistances, lastCall, m_LockObject>>
    /\ UNCHANGED heap

(* Decoding.  No results: the caller's list is cleared and the entry point *)
(* returns.  Otherwise the results are read from a MemoryStream, which     *)
(* DoRangeQueryOptimized creates over the copied buffer and                *)
(* DoRangeQueryBruteForce creates empty, and added to the caller's list,   *)
(* whose content at the call is any of PriorOutputs; the buffer is freed   *)
(* after the loop.  freed counts the calls of NativeFreeKeysAndDistances.  *)
WrapperDecode(t) ==
    /\ pc[t].at = "decode"
    /\ \E prior \in PriorOutputs :
        LET call == pc[t].call
            numberOfResults == pc[t].numberOfResults
            memoryStream == IF call.op = "DoRangeQueryBruteForce" THEN <<>>
                            ELSE pc[t].results
            decoded == ReadResultsFrom(memoryStream, 0, numberOfResults, prior)
        IN pc' = [pc EXCEPT ![t] =
                     IF numberOfResults = 0
                     THEN [at |-> "unlock", call |-> call, thrown |-> "none",
                           numberOfResults |-> 0, keysAndDistances |-> <<>>,
                           freed |-> 0]
                     ELSE [at |-> "unlock", call |-> call, thrown |-> decoded.thrown,
                           numberOfResults |-> numberOfResults,
                           keysAndDistances |-> decoded.keysAndDistances,
                           freed |-> IF decoded.thrown = "none" THEN 1 ELSE 0]]
    /\ UNCHANGED <<m_WordToKeyIndex, m_KeyToArrayIndexTable, m_Items,
                   m_BruteForceBound, keysAndDistances, lastCall, added, m_LockObject>>
    /\ UNCHANGED heap

(* Leaving the lock statement, by return or by exception.                  *)
WrapperUnlock(t) ==
    /\ pc[t].at = "unlock"
    /\ m_LockObject' = Free
    /\ pc' = [pc EXCEPT ![t] = Idle]
    /\ UNCHANGED <<m_WordToKeyIndex, m_KeyToArrayIndexTable, m_Items,
                   m_BruteForceBound, keysAndDistances, lastCall, added>>
    /\ UNCHANGED heap

NextWrapper ==
    \/ \E t \in Threads : WrapperEnter(t)
    \/ \E t \in Threads : WrapperLock(t)
    \/ \E t \in Threads : WrapperCallNative(t)
    \/ \E t \in Threads : WrapperNativeReturn(t)
    \/ \E t \in Threads : WrapperDecode(t)
    \/ \E t \in Threads : WrapperUnlock(t)

SpecWrapper == InitWrapper /\ [][NextWrapper]_vars

(* The popcount backends on their own: GetPopcount on any value of        *)
(* Uint64Bits bits and GetDistance on any two vectors, each computed by    *)
(* the instruction and by the loop.                                        *)

Uint64Bits == 8

InitPopcount ==
    /\ m_WordToKeyIndex = NoIndex
    /\ m_KeyToArrayIndexTable = NoIndex
    /\ m_Items = NoIndex
    /\ m_BruteForceBound = NoIndex
    /\ keysAndDistances = <<>>
    /\ lastCall = NoCall
    /\ added = <<>>
    /\ pc = NoThreads
    /\ m_LockObject = Free
    /\ heap = EmptyHeap

GetPopcountCall ==
    /\ lastCall = NoCall
    /\ \E x \in 0 .. (2 ^ Uint64Bits - 1) :
        lastCall' = [op |-> "GetPopcount", x |-> x,
                     popcnt |-> GetPopcount(x),
                     emulation |-> GetPopcountEmulation(x)]
    /\ UNCHANGED <<m_WordToKeyIndex, m_KeyToArrayIndexTable, m_Items,
                   m_BruteForceBound, keysAndDistances, added>>
    /\ UNCHANGED <<wrapper, heap>>

GetDistanceCall ==
    /\ lastCall = NoCall
    /\ \E x \in Vectors, y \in Vectors :
        lastCall' = [op |-> "GetDistance", x |-> x, y |-> y,
                     popcnt |-> GetDistance(x, y),
                     emulation |-> GetDistanceEmulation(x, y)]
    /\ UNCHANGED <<m_WordToKeyIndex, m_KeyToArrayIndexTable, m_Items,
                   m_BruteForceBound, keysAndDistances, added>>
    /\ UNCHANGED <<wrapper, heap>>

NextPopcount ==
    \/ GetPopcountCall
    \/ GetDistanceCall
    \/ ReturnToCaller

SpecPopcount == InitPopcount /\ [][NextPopcount]_vars

----------------------------------------------------------------------------
(* Reference notions the claims are stated with.  They are not taken from  *)
(* the code: the distance counts the bit positions at which two vectors    *)
(* differ, and the history says which pairs the index holds.               *)

Bit(w, b) == (w \div (2 ^ b)) % 2

HammingBits(x, y) ==
    Cardinality({p \in (DOMAIN x) \X (0 .. (WordBits - 1)) :
                    Bit(x[p[1]], p[2]) # Bit(y[p[1]], p[2])})

(* distance / ItemBits <= range / RangeDen                                 *)
InRadius(x, y, range) == HammingBits(x, y) * RangeDen <= range * ItemBits

Answers(query, range) ==
    {[first |-> added[n].key, second |-> HammingBits(query, added[n].item)] :
        n \in {m \in 1 .. Len(added) : InRadius(query, added[m].item, range)}}

Elements(s) == {s[n] : n \in 1 .. Len(s)}

IsQuery(call) == call.op \in {"DoRangeQueryBruteForce", "DoRangeQueryOptimized"}

ByMultiIndex(call) ==
    /\ call.op = "DoRangeQueryOptimized"
    /\ ~call.raised
    /\ call.range <= m_BruteForceBound

----------------------------------------------------------------------------
(* C1: after any sequence of successful AddItem calls, for every query q   *)
(* and radius r with 0 <= r <= bruteForceBound, DoRangeQueryOptimized      *)
(* returns the same set of keys as DoRangeQueryBruteForce, each with the   *)
(* same distance.  The code violates it.                                   *)
C1_OptimizedEqualsBruteForce ==
    ByMultiIndex(lastCall) =>
        Elements(keysAndDistances) =
            Elements(DoRangeQueryBruteForce(this, lastCall.query, lastCall.range,
                                            <<>>).keysAndDistances)

(* C2: with r <= bruteForceBound and B = floor(16 r), the bucket of every  *)
(* cell (i, q_i XOR m) with popcount(m) <= B is probed, so the candidates  *)
(* contain the key of every stored vector within r of q.  The code         *)
(* violates it.                                                            *)
C2_EveryCellProbed ==
    ByMultiIndex(lastCall) =>
        LET q == lastCall.query
            B == (lastCall.range * WordBits) \div RangeDen
            probed == Elements(Lookups(q, lastCall.range))
            candidates == Elements(CollectCandidates(this, q, lastCall.range))
        IN /\ \A i \in 0 .. (m_NumberOfWordsInItem - 1) :
                \A m \in Words :
                    Cardinality({b \in 0 .. (WordBits - 1) : Bit(m, b) = 1}) <= B
                        => \E w \in Words :
                              /\ \A b \in 0 .. (WordBits - 1) :
                                    Bit(w, b) = (Bit(q[i + 1], b) + Bit(m, b)) % 2
                              /\ i * NUMBER_OF_WORD_VARIATIONS + w \in probed
           /\ \A n \in 1 .. Len(added) :
                InRadius(q, added[n].item, lastCall.range)
                    => added[n].key \in candidates

(* C3: for r in [0,1], DoRangeQueryBruteForce returns exactly one pair     *)
(* (key, d) for each stored item whose d = differing bits / (8 L) is <= r, *)
(* no other pair, with the key the item was inserted with and d in [0,1].  *)
C3_BruteForceExact ==
    (lastCall.op = "DoRangeQueryBruteForce"
        /\ lastCall.range >= 0 /\ lastCall.range <= RangeDen) =>
        /\ ~lastCall.raised
        /\ Elements(keysAndDistances) = Answers(lastCall.query, lastCall.range)
        /\ Len(keysAndDistances) =
              Cardinality({n \in 1 .. Len(added) :
                              InRadius(lastCall.query, added[n].item, lastCall.range)})
        /\ \A n \in 1 .. Len(keysAndDistances) :
              /\ keysAndDistances[n].second >= 0
              /\ keysAndDistances[n].second <= ItemBits

(* A brute-force query has returned one of two stored items and left out   *)
(* the other.                                                              *)
C3_Witness ==
    /\ lastCall.op = "DoRangeQueryBruteForce"
    /\ ~lastCall.raised
    /\ Len(added) = 2
    /\ Len(keysAndDistances) = 1
    /\ keysAndDistances[1].second > 0
    /\ keysAndDistances[1].second * RangeDen = lastCall.range * ItemBits

(* C4 as claimed: for any inserted item (k, v), a query with vector v and  *)
(* radius 0, brute-force or optimized, returns exactly one result,         *)
(* (k, 0.0).  It fails when v is stored under a second key as well.        *)
C4_SelfQueryReturnsOnlyItself ==
    (IsQuery(lastCall) /\ lastCall.range = 0) =>
        \A n \in 1 .. Len(added) :
            added[n].item = lastCall.query
                => keysAndDistances = <<[first |-> added[n].key, second |-> 0]>>

(* C4 as amended: such a query returns exactly one pair (k', 0.0) for each *)
(* key k' whose stored vector equals v, (k, 0.0) among them, and nothing   *)
(* else; so exactly (k, 0.0) when no other key stores v.                   *)
C4_SelfQueryReturnsEqualVectors ==
    (IsQuery(lastCall) /\ lastCall.range = 0) =>
        LET same == {n \in 1 .. Len(added) : added[n].item = lastCall.query}
        IN /\ ~lastCall.raised
           /\ Elements(keysAndDistances) =
                 {[first |-> added[n].key, second |-> 0] : n \in same}
           /\ Len(keysAndDistances) = Cardinality(same)

(* An optimized query with the vector of one of two stored items and       *)
(* radius 0 has returned that item alone.                                  *)
C4_Witness ==
    /\ lastCall.op = "DoRangeQueryOptimized"
    /\ lastCall.range = 0
    /\ Len(added) = 2
    /\ added[2].item = lastCall.query
    /\ added[1].item # lastCall.query
    /\ keysAndDistances = <<[first |-> added[2].key, second |-> 0]>>

(* C5: AddItem with a key already in the index raises the duplicate-key    *)
(* error and leaves the index unchanged: item count, key table, every      *)
(* bucket and the item store; the vector first stored under the key is     *)
(* still the one a radius-0 query returns.                                 *)
C5_DuplicateKeyLeavesIndexUnchanged ==
    [][(lastCall'.op = "AddItem"
            /\ \E n \in 1 .. Len(added) : added[n].key = lastCall'.key) =>
        /\ lastCall'.raised
        /\ m_WordToKeyIndex' = m_WordToKeyIndex
        /\ m_KeyToArrayIndexTable' = m_KeyToArrayIndexTable
        /\ m_Items' = m_Items
        /\ GetNumberOfItems(this') = Len(added)
        /\ \A n \in 1 .. Len(added) :
              added[n].key = lastCall'.key =>
                  [first |-> lastCall'.key, second |-> 0] \in
                      Elements(DoRangeQueryBruteForce(this', added[n].item, 0,
                                                      <<>>).keysAndDistances)
      ]_vars

(* AddItem has been refused for the key of the second of two stored items, *)
(* offered with another vector.                                            *)
C5_Witness ==
    /\ lastCall.op = "AddItem"
    /\ lastCall.raised
    /\ Len(added) = 2
    /\ added[2].key = lastCall.key
    /\ added[2].item # lastCall.item

(* What a batch should leave in the index: each offered pair in order,     *)
(* except those whose key is already there.                                *)
RECURSIVE OfferedFrom(_, _, _)
OfferedFrom(history, batch, n) ==
    IF n > Len(batch) THEN history
    ELSE OfferedFrom(
             IF \E m \in 1 .. Len(history) : history[m].key = batch[n].key
             THEN history ELSE Append(history, batch[n]),
             batch, n + 1)

(* C6: AddItems processes the offered pairs in order, swallows the         *)
(* duplicate-key error of each pair whose key is already present (in the   *)
(* index or earlier in the batch), inserts every other pair and sets       *)
(* numberOfTrulyAdded to the number inserted, which is the growth of the   *)
(* index; for a key offered twice the first offered vector is stored.      *)
C6_BatchCountsAndKeepsFirst ==
    [][lastCall'.op = "AddItems" =>
        LET expected == OfferedFrom(added, lastCall'.batch, 1)
        IN /\ lastCall'.numberOfTrulyAdded = Len(expected) - Len(added)
           /\ lastCall'.numberOfTrulyAdded =
                 GetNumberOfItems(this') - GetNumberOfItems(this)
           /\ GetNumberOfItems(this') = Len(expected)
           /\ \A n \in 1 .. Len(expected) :
                 /\ GetItemIndex(m_KeyToArrayIndexTable', expected[n].key) = n - 1
                 /\ PagedGetItemBytes(m_Items', n - 1) = expected[n].item
                 /\ DoRangeQueryBruteForce(this', expected[n].item, 0, <<>>).keysAndDistances
                       = <<[first |-> expected[n].key, second |-> 0]>>
                    \/ \E m \in 1 .. Len(expected) :
                          m # n /\ expected[m].item = expected[n].item
      ]_vars

(* A batch of three pairs has offered a key twice with different vectors   *)
(* and a key the index already held; one pair was added.                   *)
C6_Witness ==
    /\ lastCall.op = "AddItems"
    /\ Len(lastCall.batch) = 3
    /\ lastCall.batch[1].key = added[1].key
    /\ lastCall.batch[2].key = lastCall.batch[3].key
    /\ lastCall.batch[2].item # lastCall.batch[3].item
    /\ lastCall.numberOfTrulyAdded = 1
    /\ Len(added) = 2
    /\ added[2] = lastCall.batch[2]

(* C7: after Clear in any reachable state GetNumberOfItems is 0, both      *)
(* range queries return an empty result for every q and every r in [0,1],  *)
(* every bucket and every hash directory head is empty, a key that was     *)
(* present before can be inserted again and the next inserted item gets    *)
(* ordinal 0.                                                              *)
C7_ClearEmptiesTheIndex ==
    lastCall.op = "Clear" =>
        /\ GetNumberOfItems(this) = 0
        /\ HashGetNumberOfItems(m_KeyToArrayIndexTable) = 0
        /\ \A q \in Vectors, r \in 0 .. RangeDen :
              /\ DoRangeQueryBruteForce(this, q, r, <<>>) =
                    [raised |-> FALSE, keysAndDistances |-> <<>>]
              /\ DoRangeQueryOptimized(this, m_BruteForceBound, q, r, <<>>) =
                    [raised |-> FALSE, keysAndDistances |-> <<>>]
        /\ \A b \in DOMAIN m_WordToKeyIndex :
              /\ m_WordToKeyIndex[b].m_NumberOfItems = 0
              /\ m_WordToKeyIndex[b].m_Pages = <<>>
        /\ \A h \in DOMAIN m_KeyToArrayIndexTable.m_IndexOfTheFirstKeyWithGivenHash :
              m_KeyToArrayIndexTable.m_IndexOfTheFirstKeyWithGivenHash[h] = UINT_MAX
        /\ \A k \in Keys, v \in Vectors :
              LET r == AddItem(this, k, v)
              IN /\ ~r.raised
                 /\ GetNumberOfItems(r.index) = 1
                 /\ GetItemIndex(r.index.m_KeyToArrayIndexTable, k) = 0
                 /\ PagedGetItemBytes(r.index.m_Items, 0) = v

(* Clear has run on an index that held as many items as the model allows.  *)
C7_Witness ==
    /\ lastCall.op = "Clear"
    /\ lastCall.numberOfItems = MaxItems

(* C8: both range queries raise the bad-range error for every r < 0 and    *)
(* every r > 1, whatever bruteForceBound is, and raise no error for any r  *)
(* in [0,1].                                                               *)
C8_BadRangeExactlyOutsideUnitInterval ==
    IsQuery(lastCall) =>
        (lastCall.raised <=> (lastCall.range < 0 \/ lastCall.range > RangeDen))

(* An optimized query with a radius above 1 but not above bruteForceBound  *)
(* has been refused.                                                       *)
C8_Witness ==
    /\ lastCall.op = "DoRangeQueryOptimized"
    /\ lastCall.range > RangeDen
    /\ lastCall.range <= m_BruteForceBound
    /\ lastCall.raised

(* C9: when a range query fails with the bad-range error, the caller's     *)
(* output sequence is empty after the call, also when it held results of   *)
(* an earlier query.  The code violates it.                                *)
C9_BadRangeLeavesOutputEmpty ==
    (IsQuery(lastCall) /\ lastCall.raised) => keysAndDistances = <<>>

(* C10: for every r > bruteForceBound, DoRangeQueryOptimized returns       *)
(* exactly the sequence DoRangeQueryBruteForce returns on the same state:  *)
(* the same pairs in the same order, ties included, and the same error     *)
(* when r > 1.                                                             *)
C10_AboveBoundSameAsBruteForce ==
    (lastCall.op = "DoRangeQueryOptimized" /\ lastCall.range > m_BruteForceBound) =>
        LET r == DoRangeQueryBruteForce(this, lastCall.query, lastCall.range,
                                        lastCall.prior)
        IN /\ lastCall.raised = r.raised
           /\ keysAndDistances = r.keysAndDistances

(* An optimized query above bruteForceBound has returned two results of    *)
(* equal distance, the larger key first.                                   *)
C10_Witness ==
    /\ lastCall.op = "DoRangeQueryOptimized"
    /\ lastCall.range > m_BruteForceBound
    /\ ~lastCall.raised
    /\ Len(keysAndDistances) = 2
    /\ keysAndDistances[1].second = keysAndDistances[2].second
    /\ keysAndDistances[1].first > keysAndDistances[2].first

(* C11: the result sequence of DoRangeQueryBruteForce and of               *)
(* DoRangeQueryOptimized is sorted by distance: of two consecutive results *)
(* the earlier one has a distance <= that of the later one.                *)
C11_SortedByDistance ==
    (IsQuery(lastCall) /\ ~lastCall.raised) =>
        \A n \in 1 .. (Len(keysAndDistances) - 1) :
            keysAndDistances[n].second <= keysAndDistances[n + 1].second

(* A brute-force query has returned two results of different distances,    *)
(* the nearer one being the item inserted last.                            *)
C11_Witness ==
    /\ lastCall.op = "DoRangeQueryBruteForce"
    /\ ~lastCall.raised
    /\ Len(added) = 2
    /\ Len(keysAndDistances) = 2
    /\ keysAndDistances[1].first = added[2].key
    /\ keysAndDistances[1].second < keysAndDistances[2].second

(* C12: constructing a MultiIndex with an item byte length that is not a   *)
(* multiple of 8 fails with the bad-alignment error (MultiIndexException), *)
(* whatever the other construction parameters are, and yields no index.    *)
(* The code violates it.                                                   *)
C12_MisalignedLengthRaisesBadAlignment ==
    (lastCall.op = "MultiIndex"
        /\ lastCall.p.itemBytesNumber % ITEM_SIZE_ALIGNMENT # 0) =>
        /\ lastCall.exception = "MultiIndexException"
        /\ lastCall.what = "Parameter itemBytesNumber should be divisible by 8"
        /\ m_Items = NoIndex

(* C13: constructing a MultiIndex with any size parameter equal to zero    *)
(* (item byte length, bucket page size, hash table size, blob page size)   *)
(* fails with MultiIndexException, and construction either yields an index *)
(* or raises MultiIndexException.  The code violates it.                   *)
C13_ZeroSizeRaisesMultiIndexException ==
    lastCall.op = "MultiIndex" =>
        /\ (lastCall.p.itemBytesNumber = 0 \/ lastCall.p.bucketPageSize = 0
               \/ lastCall.p.hashTableSize = 0 \/ lastCall.p.pageSize = 0)
              => lastCall.exception = "MultiIndexException"
        /\ lastCall.exception \in {NoException, "MultiIndexException"}
        /\ lastCall.exception = NoException <=> m_Items # NoIndex

(* C14: after any sequence of Push and Clear on the key table,             *)
(* GetItemIndex(k) is the ordinal assigned when k was pushed if k is       *)
(* present and the sentinel if k is absent, HasItem(k) is true exactly     *)
(* when k is present, and GetKeyByIndex(GetItemIndex(k)) = k for every     *)
(* present key, also when several keys share a hash slot.                  *)
C14_KeyTableLookups ==
    \A k \in TableKeys :
        LET pushed == {n \in 1 .. Len(added) : added[n].key = k}
        IN /\ HasItem(m_KeyToArrayIndexTable, k) <=> pushed # {}
           /\ pushed = {} => GetItemIndex(m_KeyToArrayIndexTable, k) = UINT_MAX
           /\ \A n \in pushed :
                 /\ GetItemIndex(m_KeyToArrayIndexTable, k) = n - 1
                 /\ GetKeyByIndex(m_KeyToArrayIndexTable, n - 1) = k
           /\ HashGetNumberOfItems(m_KeyToArrayIndexTable) = Len(added)

(* A key has been pushed behind another key of its hash slot, with a key   *)
(* of the other slot pushed between them.                                  *)
C14_Witness ==
    /\ lastCall.op = "Push"
    /\ ~lastCall.raised
    /\ Len(added) = 3
    /\ GetHash(m_KeyToArrayIndexTable, added[1].key) =
          GetHash(m_KeyToArrayIndexTable, added[3].key)
    /\ GetHash(m_KeyToArrayIndexTable, added[1].key) #
          GetHash(m_KeyToArrayIndexTable, added[2].key)

(* C15: in the paged container the n-th PushBytes since the last Clear     *)
(* stores its record at ordinal n, GetItemBytes(n) returns those bytes,    *)
(* and a later PushBytes changes neither the content nor the location      *)
(* (page, offset) of an earlier record.                                    *)
C15_PushKeepsEarlierRecords ==
    [][lastCall'.op = "PushBytes" =>
        LET n == m_Items.m_NumberOfItems
            perPage == m_Items.m_NumberOfItemsPerPage
        IN /\ n = Len(added)
           /\ m_Items'.m_NumberOfItems = n + 1
           /\ m_Items'.m_NumberOfItemsPerPage = perPage
           /\ PagedGetItemBytes(m_Items', n) = lastCall'.itemBytes
           /\ \A i \in 0 .. (n - 1) :
                 /\ PagedGetItemBytes(m_Items', i) = added[i + 1].item
                 /\ PagedGetItemBytes(m_Items', i) = PagedGetItemBytes(m_Items, i)
                 /\ m_Items'.m_Pages[(i \div perPage) + 1][(i % perPage) + 1]
                       = m_Items.m_Pages[(i \div perPage) + 1][(i % perPage) + 1]
           /\ Len(m_Items'.m_Pages) >= Len(m_Items.m_Pages)
           /\ \A pg \in 1 .. Len(m_Items.m_Pages) :
                 \A o \in 1 .. perPage :
                     (pg - 1) * perPage + (o - 1) < n
                         => m_Items'.m_Pages[pg][o] = m_Items.m_Pages[pg][o]
      ]_vars

(* A record has been pushed as the first one of a third page, and differs  *)
(* from the first record.                                                  *)
C15_Witness ==
    /\ lastCall.op = "PushBytes"
    /\ m_Items.m_NumberOfItems = 2 * m_Items.m_NumberOfItemsPerPage + 1
    /\ Len(m_Items.m_Pages) = 3
    /\ lastCall.itemBytes # PagedGetItemBytes(m_Items, 0)

(* C16: in the managed wrapper no two native operations on the same index  *)
(* run at the same time: every public entry point calls the native library *)
(* only while holding the instance lock, and the lock is released on every *)
(* path out of the entry point.                                            *)
C16_NativeCallsSerialized ==
    /\ \A t \in Threads :
          /\ pc[t].at \in {"locked", "native", "decode", "unlock"} => m_LockObject = t
          /\ pc[t].at \in {"idle", "lock"} => m_LockObject # t
    /\ \A t1 \in Threads, t2 \in Threads :
          (pc[t1].at = "native" /\ pc[t2].at = "native") => t1 = t2
    /\ (\A t \in Threads : pc[t].at \in {"idle", "lock"}) => m_LockObject = Free

(* One thread is at its lock statement while another thread, inside the    *)
(* lock, is about to leave the entry point by the exception of a native    *)
(* call.                                                                   *)
C16_Witness ==
    \E t1 \in Threads, t2 \in Threads :
        /\ pc[t1].at = "unlock"
        /\ pc[t1].thrown = "SEHException"
        /\ pc[t2].at = "lock"
        /\ m_LockObject = t1

(* C17: the popcount backends agree: for every input x the software loop   *)
(* (x &= x - 1 while x != 0, counting the iterations) ends and returns the *)
(* number of set bits of x, which is what the popcount instruction         *)
(* returns, so GetDistance is the same under every backend.                *)
C17_PopcountBackendsAgree ==
    /\ lastCall.op = "GetPopcount" =>
          /\ lastCall.emulation =
                Cardinality({b \in 0 .. (Uint64Bits - 1) : Bit(lastCall.x, b) = 1})
          /\ lastCall.emulation = lastCall.popcnt
    /\ lastCall.op = "GetDistance" =>
          /\ lastCall.emulation = HammingBits(lastCall.x, lastCall.y)
          /\ lastCall.emulation = lastCall.popcnt

(* GetPopcount has run on a value with clear bits below and between its    *)
(* set bits, the highest bit among them.                                   *)
C17_Witness ==
    /\ lastCall.op = "GetPopcount"
    /\ lastCall.x = 2 ^ (Uint64Bits - 1) + 4
    /\ lastCall.emulation = 2

(* C18: after every completed public operation the item store and the key  *)
(* table hold the same number of entries, which is what GetNumberOfItems   *)
(* reports, and the i-th item inserted since the last Clear has ordinal i  *)
(* in both.                                                                *)
C18_StoresInLockstep ==
    /\ HashGetNumberOfItems(m_KeyToArrayIndexTable) = m_Items.m_NumberOfItems
    /\ GetNumberOfItems(this) = m_Items.m_NumberOfItems
    /\ GetNumberOfItems(this) = Len(added)
    /\ \A n \in 1 .. Len(added) :
          /\ GetKeyByIndex(m_KeyToArrayIndexTable, n - 1) = added[n].key
          /\ PagedGetItemBytes(m_Items, n - 1) = added[n].item

(* AddItem has been refused for the key of the first of two stored items,  *)
(* which share a hash slot.                                                *)
C18_Witness ==
    /\ lastCall.op = "AddItem"
    /\ lastCall.raised
    /\ Len(added) = 2
    /\ added[1].key = lastCall.key
    /\ GetHash(m_KeyToArrayIndexTable, added[1].key) =
          GetHash(m_KeyToArrayIndexTable, added[2].key)

(* How often the key occurs in the bucket of directory index b.            *)
Occurrences(b, key) ==
    LET values == CollectValuesTo(m_WordToKeyIndex[b], <<>>)
    IN Cardinality({n \in 1 .. Len(values) : values[n] = key})

(* C19: for every item inserted since the last Clear, with key k, vector v *)
(* and ordinal n, the key table maps k to n, the item store holds v at n,  *)
(* and for every word position i the key k occurs exactly once in the      *)
(* bucket of directory index i * NUMBER_OF_WORD_VARIATIONS + word_i(v) and *)
(* in no other bucket of position i.                                       *)
C19_ItemFiledUnderEachWord ==
    \A n \in 1 .. Len(added) :
        LET k == added[n].key
            v == added[n].item
        IN /\ GetItemIndex(m_KeyToArrayIndexTable, k) = n - 1
           /\ PagedGetItemBytes(m_Items, n - 1) = v
           /\ \A i \in 0 .. (m_NumberOfWordsInItem - 1) :
                 \A w \in Words :
                     Occurrences(i * NUMBER_OF_WORD_VARIATIONS + w, k) =
                         IF w = v[i + 1] THEN 1 ELSE 0

(* Two items are stored whose vectors agree in word 0 and differ in word   *)
(* 1, the words of the second one being different from each other.         *)
C19_Witness ==
    /\ lastCall.op = "AddItem"
    /\ ~lastCall.raised
    /\ Len(added) = 2
    /\ added[1].item[1] = added[2].item[1]
    /\ added[1].item[2] # added[2].item[2]
    /\ added[2].item[1] # added[2].item[2]

(* C20: the pigeonhole bound of the bit budget: for a query q and a stored *)
(* vector v whose total bit distance is at most r times the number of bits *)
(* of a vector, some word position i has popcount(v_i XOR q_i) <=          *)
(* floor(r * bits of a word), the value computed as maxBitsChanged.        *)
C20_PigeonholeBitBudget ==
    ByMultiIndex(lastCall) =>
        \A n \in 1 .. Len(added) :
            InRadius(lastCall.query, added[n].item, lastCall.range) =>
                \E i \in 1 .. m_NumberOfWordsInItem :
                    GetPopcount(Xor(added[n].item[i], lastCall.query[i]))
                        <= MaxBitsChanged(lastCall.range)

(* An optimized query on the multi-index path, with a radius below 1, has  *)
(* met a stored vector on the border of the radius of which every word     *)
(* differs from the query's by exactly the bit budget, which is not 0.     *)
C20_Witness ==
    /\ ByMultiIndex(lastCall)
    /\ lastCall.range < RangeDen
    /\ MaxBitsChanged(lastCall.range) > 0
    /\ Len(added) >= 1
    /\ HammingBits(lastCall.query, added[1].item) * RangeDen = lastCall.range * ItemBits
    /\ \A i \in 1 .. m_NumberOfWordsInItem :
          GetPopcount(Xor(added[1].item[i], lastCall.query[i]))
              = MaxBitsChanged(lastCall.range)

(* The number of set bits of a word.                                       *)
BitCount(w) == Cardinality({b \in 0 .. (WordBits - 1) : Bit(w, b) = 1})

(* C21: the mask table built at construction contains every mask of a word *)
(* exactly once, each paired with its own popcount, in non-decreasing      *)
(* popcount order with masks of equal popcount in ascending mask value; so *)
(* the mask loop of a query, which stops at the first entry whose popcount *)
(* exceeds B, visits exactly the masks with popcount <= B.                 *)
C21_MaskTableCompleteAndOrdered ==
    /\ Len(m_MasksAndDistances) = NUMBER_OF_WORD_VARIATIONS
    /\ \A m \in Words :
          Cardinality({n \in 1 .. Len(m_MasksAndDistances) :
                          m_MasksAndDistances[n].first = m}) = 1
    /\ \A n \in 1 .. Len(m_MasksAndDistances) :
          m_MasksAndDistances[n].second = BitCount(m_MasksAndDistances[n].first)
    /\ \A n \in 1 .. (Len(m_MasksAndDistances) - 1) :
          \/ m_MasksAndDistances[n].second < m_MasksAndDistances[n + 1].second
          \/ /\ m_MasksAndDistances[n].second = m_MasksAndDistances[n + 1].second
             /\ m_MasksAndDistances[n].first < m_MasksAndDistances[n + 1].first
    /\ ByMultiIndex(lastCall) =>
          LET B == MaxBitsChanged(lastCall.range)
              visited == LookupMasksFrom(0, B, 0, 1, <<>>)
          IN /\ Elements(visited) = {m \in Words : BitCount(m) <= B}
             /\ Len(visited) = Cardinality({m \in Words : BitCount(m) <= B})

(* An optimized query on the multi-index path has run with a bit budget    *)
(* that admits the masks of one bit, two of them, and not the mask of two  *)
(* bits, so its mask loop has stopped inside the table.                    *)
C21_Witness ==
    /\ ByMultiIndex(lastCall)
    /\ MaxBitsChanged(lastCall.range) = 1
    /\ Len(LookupMasksFrom(0, 1, 0, 1, <<>>)) = WordBits + 1
    /\ Len(LookupMasksFrom(0, 1, 0, 1, <<>>)) < Len(m_MasksAndDistances)
    /\ Len(keysAndDistances) = 0

(* C23: in every reachable index state every key stored in any bucket is   *)
(* present in the key table, so the lookup of each candidate key of an     *)
(* optimized query returns an ordinal smaller than the number of items,    *)
(* never the sentinel, and the item fetch stays inside the item store.     *)
C23_BucketKeysAreInKeyTable ==
    /\ \A b \in DOMAIN m_WordToKeyIndex :
          \A k \in Elements(CollectValuesTo(m_WordToKeyIndex[b], <<>>)) :
              /\ HasItem(m_KeyToArrayIndexTable, k)
              /\ GetItemIndex(m_KeyToArrayIndexTable, k) # UINT_MAX
              /\ GetItemIndex(m_KeyToArrayIndexTable, k) < m_Items.m_NumberOfItems
    /\ ByMultiIndex(lastCall) =>
          \A k \in Elements(CollectCandidates(this, lastCall.query, lastCall.range)) :
              LET n == GetItemIndex(m_KeyToArrayIndexTable, k)
              IN /\ n < GetNumberOfItems(this)
                 /\ n \div m_Items.m_NumberOfItemsPerPage < Len(m_Items.m_Pages)

(* An optimized query on the multi-index path has collected the keys of    *)
(* both stored items, looked them up and returned one of them.             *)
C23_Witness ==
    /\ ByMultiIndex(lastCall)
    /\ Len(added) = 2
    /\ Cardinality(Elements(CollectCandidates(this, lastCall.query,
                                              lastCall.range))) = 2
    /\ Len(keysAndDistances) = 1

(* C28: DoRangeQueryBruteForce and DoRangeQueryOptimized leave the index   *)
(* unchanged, whether they succeed or raise bad range: the item count, the *)
(* key table, every bucket and the item store are the same before and      *)
(* after, so repeating the query on the state it leaves gives the same set *)
(* of (key, distance) pairs.                                               *)
C28_QueriesLeaveIndexUnchanged ==
    [][(lastCall = NoCall /\ IsQuery(lastCall')) =>
        /\ GetNumberOfItems(this') = GetNumberOfItems(this)
        /\ m_KeyToArrayIndexTable' = m_KeyToArrayIndexTable
        /\ m_WordToKeyIndex' = m_WordToKeyIndex
        /\ m_Items' = m_Items
        /\ LET again ==
                  IF lastCall'.op = "DoRangeQueryBruteForce"
                  THEN DoRangeQueryBruteForce(this', lastCall'.query,
                                              lastCall'.range, lastCall'.prior)
                  ELSE DoRangeQueryOptimized(this', m_BruteForceBound',
                                             lastCall'.query, lastCall'.range,
                                             lastCall'.prior)
           IN /\ again.raised = lastCall'.raised
              /\ Elements(again.keysAndDistances) = Elements(keysAndDistances')
      ]_vars

(* An optimized query has thrown bad range on an index of two items.       *)
C28_Witness ==
    /\ lastCall.op = "DoRangeQueryOptimized"
    /\ lastCall.raised
    /\ lastCall.range > RangeDen
    /\ GetNumberOfItems(this) = 2
    /\ Len(added) = 2

(* C22: deduplication in DoRangeQueryOptimized is exact: however many      *)
(* buckets a key was collected from, it is distance-evaluated once and     *)
(* appears at most once in the output, and no collected key is skipped;    *)
(* also when the largest candidate key is the largest value of a key,      *)
(* where the sentinel appended after sorting (last key + 1) wraps to 0.    *)
(* The evaluations are counted by running the loop with radius 1, which    *)
(* appends an entry for every key it evaluates.                            *)
C22_DeduplicationExact ==
    ByMultiIndex(lastCall) =>
        LET collected == CollectCandidates(this, lastCall.query, lastCall.range)
            sorted == SortUint(collected)
            withSentinel == Append(sorted, (sorted[Len(sorted)] + 1) % (2 ^ UintBits))
            evaluated == IF Len(collected) = 0 THEN <<>>
                         ELSE EvaluateCandidatesFrom(this, lastCall.query, RangeDen,
                                                     withSentinel, 0, <<>>)
        IN /\ {evaluated[n].first : n \in 1 .. Len(evaluated)} = Elements(collected)
           /\ Len(evaluated) = Cardinality(Elements(collected))
           /\ Cardinality({keysAndDistances[n].first :
                               n \in 1 .. Len(keysAndDistances)})
                 = Len(keysAndDistances)
           /\ Elements(keysAndDistances) =
                 {[first |-> added[n].key,
                   second |-> HammingBits(lastCall.query, added[n].item)] :
                     n \in {m \in 1 .. Len(added) :
                               /\ added[m].key \in Elements(collected)
                               /\ InRadius(lastCall.query, added[m].item,
                                           lastCall.range)}}

(* An optimized query on the multi-index path has collected the largest    *)
(* key more than once, and a smaller key as well, and returned both.       *)
C22_Witness ==
    /\ ByMultiIndex(lastCall)
    /\ LET collected == CollectCandidates(this, lastCall.query, lastCall.range)
       IN /\ Cardinality({n \in 1 .. Len(collected) : collected[n] = UINT_MAX}) >= 2
          /\ 0 \in Elements(collected)
          /\ (SortUint(collected)[Len(collected)] + 1) % (2 ^ UintBits) = 0
    /\ {keysAndDistances[n].first : n \in 1 .. Len(keysAndDistances)}
          = {0, UINT_MAX}

(* C24: results with equal distance are ordered deterministically:         *)
(* DoRangeQueryBruteForce returns them in ascending ordinal (insertion     *)
(* order) and DoRangeQueryOptimized with r <= bruteForceBound returns them *)
(* in ascending key, because the final sort by distance keeps the relative *)
(* order of equal-distance entries.  The code violates it: its final sort  *)
(* is std::sort.                                                           *)
C24_TiesInStageOrder ==
    (IsQuery(lastCall) /\ ~lastCall.raised) =>
        \A n, m \in 1 .. Len(keysAndDistances) :
            (n < m /\ keysAndDistances[n].second = keysAndDistances[m].second) =>
                IF ByMultiIndex(lastCall)
                THEN keysAndDistances[n].first < keysAndDistances[m].first
                ELSE GetItemIndex(m_KeyToArrayIndexTable, keysAndDistances[n].first)
                        < GetItemIndex(m_KeyToArrayIndexTable,
                                       keysAndDistances[m].first)

(* The ordinals met by following the next ordinals from ordinal n, for at  *)
(* most steps records.                                                     *)
RECURSIVE ChainFrom(_, _, _)
ChainFrom(t, n, steps) ==
    IF n = UINT_MAX \/ steps = 0 \/ n >= HashGetNumberOfItems(t) THEN <<>>
    ELSE <<n>> \o ChainFrom(t, PagedGetItemBytes(t.m_KeyAndNextIndexPairArray, n).second,
                            steps - 1)

(* The chain of the slot hash.                                             *)
Chain(t, hash) ==
    ChainFrom(t, t.m_IndexOfTheFirstKeyWithGivenHash[hash], HashGetNumberOfItems(t) + 1)

(* C25: in every reachable key-table state each chain record's next        *)
(* ordinal is either the sentinel or strictly greater than the record's    *)
(* own ordinal and smaller than the number of records, every directory     *)
(* head is the sentinel or a valid ordinal, and each record lies on        *)
(* exactly the chain of slot (key mod H), once; so the asserts in HasItem, *)
(* GetItemIndex and Push (next > own ordinal) never fail and every chain   *)
(* walk ends, after at most as many records as the table holds.            *)
C25_ChainsForwardAndComplete ==
    LET t == m_KeyToArrayIndexTable
        N == HashGetNumberOfItems(t)
        slots == DOMAIN t.m_IndexOfTheFirstKeyWithGivenHash
        item(n) == PagedGetItemBytes(t.m_KeyAndNextIndexPairArray, n)
    IN /\ \A n \in 0 .. (N - 1) :
             /\ item(n).second > n
             /\ item(n).second = UINT_MAX \/ item(n).second < N
       /\ \A h \in slots :
             /\ t.m_IndexOfTheFirstKeyWithGivenHash[h] = UINT_MAX
                   \/ t.m_IndexOfTheFirstKeyWithGivenHash[h] < N
             /\ Len(Chain(t, h)) <= N
       /\ \A n \in 0 .. (N - 1) :
             \A h \in slots :
                 Cardinality({m \in 1 .. Len(Chain(t, h)) : Chain(t, h)[m] = n})
                     = IF h = item(n).first % Cardinality(slots) THEN 1 ELSE 0

(* Push has walked a chain of two records and thrown on the second, in a   *)
(* table whose slots each have a chain of two records.                     *)
C25_Witness ==
    /\ lastCall.op = "Push"
    /\ lastCall.raised
    /\ \A h \in DOMAIN m_KeyToArrayIndexTable.m_IndexOfTheFirstKeyWithGivenHash :
          Len(Chain(m_KeyToArrayIndexTable, h)) = 2
    /\ GetItemIndex(m_KeyToArrayIndexTable, lastCall.key) >= 2

(* The pages met by following the next pointers from currentPage, at most  *)
(* steps of them.                                                          *)
RECURSIVE PagesFrom(_, _, _)
PagesFrom(h, currentPage, steps) ==
    IF currentPage \notin Addresses \/ steps = 0 THEN <<>>
    ELSE <<currentPage>> \o PagesFrom(h, h[currentPage].next, steps - 1)

Pages(b) == PagesFrom(heap, b.m_FirstPagePtr, MaxPages + 1)

(* The number of slots of the page that have been written.                 *)
Held(h, page) ==
    Cardinality({i \in DOMAIN h[page].items : h[page].items[i] # Indeterminate})

C27_CollectAppendsInPushOrder ==
    [][(lastCall = NoCall /\ lastCall'.op = "CollectValuesTo") =>
        LET b == lastCall'.bucket
        IN /\ lastCall'.accumulator = lastCall'.prior \o added[b]
           /\ Len(lastCall'.accumulator) =
                 Len(lastCall'.prior) + m_WordToKeyIndex[b].m_NumberOfItems
           /\ m_WordToKeyIndex' = m_WordToKeyIndex
           /\ heap' = heap
      ]_vars

(* CollectValuesTo has run with a non-empty accumulator on a bucket of     *)
(* page capacity 2 that holds two full pages of values, not all equal.     *)
C27_Witness ==
    /\ lastCall.op = "CollectValuesTo"
    /\ lastCall.prior # <<>>
    /\ m_WordToKeyIndex[lastCall.bucket].m_NumberOfItemsPerPage = 2
    /\ m_WordToKeyIndex[lastCall.bucket].m_NumberOfItems = 4
    /\ Len(lastCall.accumulator) = 5
    /\ lastCall.accumulator[2] # lastCall.accumulator[5]

(* C30: copy-constructing a MultiIndexBucket from a source bucket, or      *)
(* assigning a source bucket to it, yields a bucket with the source's page *)
(* capacity whose CollectValuesTo gives the same sequence of values as the *)
(* source, held in pages of its own: the source is unchanged, and the      *)
(* pages previously owned by the assigned-to bucket are released, so that  *)
(* every allocated page belongs to one of the two buckets.  This for       *)
(* non-empty sources as well as empty ones.  The code violates it.         *)
C30_CopyHoldsSourceValues ==
    lastCall.op \in {"MultiIndexBucket", "operator="} =>
        /\ ~lastCall.crashed
        /\ LET source == m_WordToKeyIndex[lastCall.source]
               target == m_WordToKeyIndex[lastCall.target]
           IN /\ target.m_NumberOfItemsPerPage = source.m_NumberOfItemsPerPage
              /\ LinkedCollectValuesTo(heap, target, <<>>)
                    = LinkedCollectValuesTo(heap, source, <<>>)
              /\ LinkedCollectValuesTo(heap, source, <<>>) = added[lastCall.source]
              /\ Elements(Pages(target)) \cap Elements(Pages(source)) = {}
              /\ Addresses \ FreeAddresses(heap)
                    = Elements(Pages(target)) \cup Elements(Pages(source))

(* C29: each managed-wrapper range query (DoRangeQueryBruteForce and       *)
(* DoRangeQueryOptimized alike) delivers to the caller exactly the         *)
(* numberOfResults (key, distance) pairs of the native result buffer, key  *)
(* before distance and in the native order, and hands every non-null       *)
(* native result buffer to FreeKeysAndDistances exactly once on every      *)
(* path.  The code violates it.                                            *)
C29_WrapperDeliversNativeResults ==
    \A t \in Threads :
        (/\ pc[t].at = "unlock"
         /\ IsQuery(pc[t].call)
         /\ pc[t].thrown # "SEHException") =>
            LET native == IF pc[t].call.op = "DoRangeQueryBruteForce"
                          THEN DoRangeQueryBruteForce(this, pc[t].call.query,
                                                      pc[t].call.range, <<>>)
                          ELSE DoRangeQueryOptimized(this, m_BruteForceBound,
                                                     pc[t].call.query,
                                                     pc[t].call.range, <<>>)
            IN /\ pc[t].thrown = "none"
               /\ pc[t].keysAndDistances = native.keysAndDistances
               /\ pc[t].numberOfResults = Len(native.keysAndDistances)
               /\ pc[t].freed = IF pc[t].numberOfResults = 0 THEN 0 ELSE 1

====
